---- MODULE Spec2Model ----
(***************************************************************************)
(* Model of the experimentation engine of edurec:                          *)
(*   src/src/edurec/monitoring/ab_testing.py  (ExperimentConfig,           *)
(*                                              ABTestManager)             *)
(*   src/src/edurec/monitoring/metrics.py     (A/B counters)               *)
(*   src/src/edurec/models/hybrid.py          (_initialize_experiments)    *)
(*                                                                         *)
(* Probabilities are held in units of 1/10000, the resolution of the hash  *)
(* ratio (hash mod 10000) / 10000.0.  For every traffic split used below   *)
(* the integer walk agrees with the double-precision walk of the code on   *)
(* all 10000 buckets, and the integer tolerance test agrees with           *)
(* abs(total - 1.0) > 0.01 (no split sums to exactly 0.99 or 1.01).        *)
(*                                                                         *)
(* The Redis store behind redis_client is an external collaborator: its    *)
(* content is never read back by the manager, so only the outcome of each  *)
(* write (done, or an exception) is modelled.  The precision_at_k summary  *)
(* fed by get_experiment_stats is write-only as well and is left out.      *)
(***************************************************************************)
EXTENDS Integers, Sequences, FiniteSets, TLC

VARIABLES
    redis_client,           \* ABTestManager.redis_client is not None
    experiments,            \* ABTestManager.experiments: name -> ExperimentConfig
    user_assignments,       \* ABTestManager.user_assignments: user -> {name: variant}
    ab_test_assignments,    \* MetricsCollector.ab_test_assignments counter
    ab_test_conversions,    \* MetricsCollector.ab_test_conversions counter
    observed,               \* history: one earlier return of get_user_variant
    threads,                \* concurrent callers of get_user_variant
    request,                \* the hybrid_recommend call being served
    response,               \* what that call returned
    user_file,              \* GamificationStorage: data/gamification/users/<id>.json
    today,                  \* date.today(), as a day number
    updates,                \* what the last process_user_activity returned
    processed               \* history: the number of activities processed

vars == <<redis_client, experiments, user_assignments, ab_test_assignments,
          ab_test_conversions, observed, threads, request, response,
          user_file, today, updates, processed>>

\* the state of the gamification subsystem
gamification == <<user_file, today, updates, processed>>

----------------------------------------------------------------------------
(* Bounds *)

MaxConversions == 1     \* conversion events recorded per process lifetime

----------------------------------------------------------------------------
(* Values *)

None == "None"

Users == {"user_33", "user_9598"}

ExperimentNames == {"new_algorithm_v1", "content_boost"}

ConversionTypes == {"enroll", "complete"}

Variants == {"control", "treatment", "holdout"}

HashModulus == 10000

SplitTolerance == 100       \* 0.01 in units of 1/10000

SplitTotal == 10000         \* 1.0 in units of 1/10000

\* int(md5(f"{user_id}:{experiment.name}").hexdigest(), 16)
\* (the residue mod 10000 of the digest, which is all the code uses of it)
MD5(user_id, experiment_name) ==
    CASE user_id = "user_33"   /\ experiment_name = "new_algorithm_v1" -> 381
      [] user_id = "user_33"   /\ experiment_name = "content_boost"    -> 956
      [] user_id = "user_9598" /\ experiment_name = "new_algorithm_v1" -> 9985
      [] user_id = "user_9598" /\ experiment_name = "content_boost"    -> 9976

\* A dict in insertion order: a sequence of <<key, value>> pairs.
Keys(d) == [i \in 1..Len(d) |-> d[i][1]]

Range(s) == {s[i] : i \in 1..Len(s)}

RECURSIVE SumValues(_)
SumValues(d) == IF d = <<>> THEN 0 ELSE d[1][2] + SumValues(Tail(d))

Abs(x) == IF x < 0 THEN -x ELSE x

\* sum(f[k] for k in S)
RECURSIVE SumOver(_, _)
SumOver(f, S) ==
    IF S = {} THEN 0
    ELSE LET k == CHOOSE x \in S : TRUE IN f[k] + SumOver(f, S \ {k})

\* dict[k] = v, for a dict held as a function
Put(d, k, v) == [x \in DOMAIN d \cup {k} |-> IF x = k THEN v ELSE d[x]]

\* HybridRecommender.experiments[*]["traffic_split"]
HybridTrafficSplit == << <<"control", 9000>>, <<"treatment", 1000>> >>

\* ExperimentConfig(name, description, variants, traffic_split, start_date, is_active=True)
ExperimentConfig(name, variants, traffic_split) ==
    [name |-> name, variants |-> variants, traffic_split |-> traffic_split,
     is_active |-> TRUE]

\* The (variants, traffic_split) arguments callers build configs from: the
\* 90/10 split, a split whose key order differs from the declared variants and
\* which sums to 0.9901, the 0.5/0.4 split, and a split summing to 1.0101.
ConfigInputs ==
    { [variants |-> <<"control", "treatment">>, traffic_split |-> HybridTrafficSplit],
      [variants |-> <<"control", "treatment", "holdout">>,
       traffic_split |-> << <<"treatment", 1000>>, <<"control", 4000>>, <<"holdout", 4901>> >>],
      [variants |-> <<"a", "b">>,
       traffic_split |-> << <<"a", 5000>>, <<"b", 4000>> >>],
      [variants |-> <<"control", "treatment">>,
       traffic_split |-> << <<"control", 5000>>, <<"treatment", 5101>> >>] }

\* [mutant] a tolerance of 0.1 instead of 0.01
PostInitRaisesLoose(traffic_split) ==
    Abs(SumValues(traffic_split) - SplitTotal) > 10 * SplitTolerance

\* ExperimentConfig.__post_init__: TRUE when it raises ValueError
PostInitRaises(traffic_split) ==
    LET total_split == SumValues(traffic_split)
    IN  Abs(total_split - SplitTotal) > SplitTolerance

----------------------------------------------------------------------------
(* ABTestManager._assign_user_to_variant *)

\* the loop over experiment.traffic_split.items(), then the fallback
RECURSIVE WalkSplit(_, _, _, _)
WalkSplit(traffic_split, i, cumulative_prob, hash_units) ==
    IF i > Len(traffic_split)
    THEN Keys(traffic_split)[1]
    ELSE LET cumulative == cumulative_prob + traffic_split[i][2]
         IN  IF hash_units <= cumulative
             THEN traffic_split[i][1]
             ELSE WalkSplit(traffic_split, i + 1, cumulative, hash_units)

\* the probability traffic_split gives a variant
ProbOf(traffic_split, variant) ==
    LET at == {i \in 1..Len(traffic_split) : traffic_split[i][1] = variant}
    IN  IF at = {} THEN 0 ELSE traffic_split[CHOOSE i \in at : TRUE][2]

\* the traffic split re-keyed in the order of the declared variants list
DeclaredSplit(experiment) ==
    [i \in 1..Len(experiment.variants) |->
        <<experiment.variants[i], ProbOf(experiment.traffic_split, experiment.variants[i])>>]

\* [mutant] the fallback returns the last key
AssignBucketFallbackLast(hash_units, experiment) ==
    LET ts == experiment.traffic_split
    IN  IF hash_units <= SumValues(ts)
        THEN WalkSplit(ts, 1, 0, hash_units)
        ELSE Keys(ts)[Len(ts)]

\* [mutant] the walk follows experiment.variants
AssignBucketDeclaredOrder(hash_units, experiment) ==
    WalkSplit(DeclaredSplit(experiment), 1, 0, hash_units)

\* [mutant] each probability is compared alone, with no accumulation
AssignBucketNoAccumulate(hash_units, experiment) ==
    LET ts == experiment.traffic_split
        hit == {i \in 1..Len(ts) : hash_units <= ts[i][2]}
    IN  IF hit = {} THEN Keys(ts)[1]
        ELSE ts[CHOOSE i \in hit : \A j \in hit : i <= j][1]

\* the variant of a hash bucket (hash_value % 10000)
AssignBucket(hash_units, experiment) ==
    WalkSplit(experiment.traffic_split, 1, 0, hash_units)

\* [mutant] round robin on an in-memory counter instead of the hash
AssignUserByCallOrder(user_id, experiment) ==
    LET n == SumOver(ab_test_assignments, DOMAIN ab_test_assignments)
        ts == experiment.traffic_split
    IN  Keys(ts)[(n % Len(ts)) + 1]

AssignUserToVariant(user_id, experiment) ==
    AssignBucket(MD5(user_id, experiment.name) % HashModulus, experiment)

----------------------------------------------------------------------------
(* ABTestManager.get_user_variant, as one call *)

Cached(user_id, experiment_name) ==
    /\ user_id \in DOMAIN user_assignments
    /\ experiment_name \in DOMAIN user_assignments[user_id]

\* lines 113-130: the first assignment of user_id in an active experiment
first_assignment(user_id, experiment_name, hset_raises) ==
    LET variant == AssignUserToVariant(user_id, experiments[experiment_name])
        ua1 == IF user_id \notin DOMAIN user_assignments
               THEN Put(user_assignments, user_id, <<>>)
               ELSE user_assignments
        ua2 == Put(ua1, user_id, Put(ua1[user_id], experiment_name, variant))
        counted == [ab_test_assignments EXCEPT ![<<experiment_name, variant>>] = @ + 1]
    IN  IF redis_client /\ hset_raises
        THEN [ret |-> "RedisError", raised |-> TRUE, active |-> TRUE,
              user_assignments |-> ua2, ab_test_assignments |-> counted]
        ELSE [ret |-> variant, raised |-> FALSE, active |-> TRUE,
              user_assignments |-> ua2, ab_test_assignments |-> counted]

\* a call that returns r and changes nothing
unchanged_return(r, active) ==
    [ret |-> r, raised |-> FALSE, active |-> active,
     user_assignments |-> user_assignments,
     ab_test_assignments |-> ab_test_assignments]

\* [mutant] the cache is consulted before is_active
get_user_variant_cache_first(user_id, experiment_name, hset_raises) ==
    IF experiment_name \notin DOMAIN experiments THEN unchanged_return("control", FALSE)
    ELSE IF Cached(user_id, experiment_name)
         THEN unchanged_return(user_assignments[user_id][experiment_name], TRUE)
    ELSE IF ~experiments[experiment_name].is_active THEN unchanged_return("control", FALSE)
    ELSE first_assignment(user_id, experiment_name, hset_raises)

\* The outcome of get_user_variant(user_id, experiment_name) in the current
\* state: the value returned, or the exception raised, and the state left.
\* hset_raises: the Redis write of the call, if it makes one, raises.
get_user_variant(user_id, experiment_name, hset_raises) ==
    IF experiment_name \notin DOMAIN experiments THEN unchanged_return("control", FALSE)
    ELSE IF ~experiments[experiment_name].is_active THEN unchanged_return("control", FALSE)
    ELSE IF Cached(user_id, experiment_name)
         THEN unchanged_return(user_assignments[user_id][experiment_name], TRUE)
    ELSE first_assignment(user_id, experiment_name, hset_raises)

\* the outcomes of the Redis write of a call: only a manager with a
\* redis_client makes one
RedisOutcomes == IF redis_client THEN BOOLEAN ELSE {FALSE}

NoObservation == [user_id |-> None, experiment_name |-> None, variant |-> None]

\* what an observer of the calls may remember of this one: a first value
\* returned for an active experiment is kept, or not
Observe(out, user_id, experiment_name) ==
    IF observed = NoObservation /\ out.active /\ ~out.raised
    THEN {NoObservation, [user_id |-> user_id, experiment_name |-> experiment_name,
                 variant |-> out.ret]}
    ELSE {observed}

GetUserVariant(user_id, experiment_name) ==
    \E hset_raises \in RedisOutcomes :
        LET out == get_user_variant(user_id, experiment_name, hset_raises)
        IN  /\ user_assignments' = out.user_assignments
            /\ ab_test_assignments' = out.ab_test_assignments
            /\ observed' \in Observe(out, user_id, experiment_name)
            /\ UNCHANGED <<gamification, redis_client, experiments, ab_test_conversions,
                         threads, request, response>>

----------------------------------------------------------------------------
(* ABTestManager.create_experiment, HybridRecommender._initialize_experiments *)

\* [mutant] no check for a name already registered
create_experiment_overwrite(name, variants, traffic_split, hset_raises) ==
    IF PostInitRaises(traffic_split)
    THEN [ret |-> "ValueError", experiments |-> experiments]
    ELSE [ret |-> "True",
          experiments |-> Put(experiments, name,
                              ExperimentConfig(name, variants, traffic_split))]

\* The outcome of ExperimentConfig(name, ..., variants, traffic_split, ...)
\* followed by create_experiment(config).
\* hset_raises: the Redis write of the call, if it makes one, raises.
create_experiment(name, variants, traffic_split, hset_raises) ==
    LET config == ExperimentConfig(name, variants, traffic_split)
    IN  IF PostInitRaises(traffic_split)
        THEN [ret |-> "ValueError", experiments |-> experiments]
        ELSE IF config.name \in DOMAIN experiments
        THEN [ret |-> "False", experiments |-> experiments]
        ELSE [ret |-> IF redis_client /\ hset_raises THEN "False" ELSE "True",
              experiments |-> Put(experiments, config.name, config)]

CreateExperiment(name, input) ==
    \E hset_raises \in RedisOutcomes :
        /\ experiments' =
              create_experiment(name, input.variants, input.traffic_split,
                                hset_raises).experiments
        /\ UNCHANGED <<gamification, redis_client, user_assignments, ab_test_assignments,
                       ab_test_conversions, observed,
                   threads, request, response>>

\* HybridRecommender.experiments, in dict order
HybridExperiments == <<"new_algorithm_v1", "content_boost">>

\* The experiments dict after _initialize_experiments: one create_experiment
\* per entry of HybridRecommender.experiments, its result ignored.
RECURSIVE initialize_experiments(_, _)
initialize_experiments(i, registered) ==
    IF i > Len(HybridExperiments) THEN registered
    ELSE LET name == HybridExperiments[i]
             config == ExperimentConfig(name, <<"control", "treatment">>, HybridTrafficSplit)
         IN  initialize_experiments(i + 1,
                 IF config.name \in DOMAIN registered THEN registered
                 ELSE Put(registered, config.name, config))

\* HybridRecommender.__init__ with enable_ab_testing
InitializeExperiments ==
    /\ experiments' = initialize_experiments(1, experiments)
    /\ UNCHANGED <<gamification, redis_client, user_assignments, ab_test_assignments,
                   ab_test_conversions, observed,
                   threads, request, response>>

\* experiment.is_active = active, on a registered experiment
SetIsActive(experiment_name, active) ==
    /\ experiment_name \in DOMAIN experiments
    /\ experiments' = [experiments EXCEPT ![experiment_name].is_active = active]
    /\ UNCHANGED <<gamification, redis_client, user_assignments, ab_test_assignments,
                   ab_test_conversions, observed,
                   threads, request, response>>

----------------------------------------------------------------------------
(* ABTestManager.record_conversion *)

TotalConversions == SumOver(ab_test_conversions, DOMAIN ab_test_conversions)

\* The outcome of record_conversion(user_id, experiment_name, conversion_type):
\* it returns nothing and raises nothing.
\* hset_raises: the Redis write of get_user_variant raises.  (The lpush that
\* follows the counter increment may raise too; that exception is caught
\* after the increment and changes nothing.)
record_conversion(user_id, experiment_name, conversion_type, hset_raises) ==
    LET out == get_user_variant(user_id, experiment_name, hset_raises)
    IN  [raised |-> FALSE,
         user_assignments |-> out.user_assignments,
         ab_test_assignments |-> out.ab_test_assignments,
         ab_test_conversions |->
             IF out.raised
             THEN ab_test_conversions
             ELSE [ab_test_conversions EXCEPT
                      ![<<experiment_name, out.ret, conversion_type>>] = @ + 1]]

RecordConversion(user_id, experiment_name, conversion_type) ==
    /\ TotalConversions < MaxConversions
    /\ \E hset_raises \in RedisOutcomes :
        LET out == record_conversion(user_id, experiment_name, conversion_type, hset_raises)
        IN  /\ user_assignments' = out.user_assignments
            /\ ab_test_assignments' = out.ab_test_assignments
            /\ ab_test_conversions' = out.ab_test_conversions
            /\ UNCHANGED <<gamification, redis_client, experiments, observed,
                   threads, request, response>>

----------------------------------------------------------------------------
(* ABTestManager.get_experiment_stats *)

MockEnrollRateTenths == 3       \* variant_counts.get(variant, 0) * 0.3
MockCompleteRateTenths == 1     \* variant_counts.get(variant, 0) * 0.1

\* the users whose cached assignment for experiment_name is variant
AssignedUsers(experiment_name, variant) ==
    {u \in DOMAIN user_assignments :
        /\ experiment_name \in DOMAIN user_assignments[u]
        /\ user_assignments[u][experiment_name] = variant}

\* variant_counts: a key only for a variant that was counted
VariantCounts(experiment_name) ==
    LET counted == {v \in Variants : AssignedUsers(experiment_name, v) # {}}
    IN  [v \in counted |-> Cardinality(AssignedUsers(experiment_name, v))]

\* variant_counts.get(variant, 0)
GetCount(variant_counts, variant) ==
    IF variant \in DOMAIN variant_counts THEN variant_counts[variant] ELSE 0

\* conversion_counts, each value in tenths of a conversion
ConversionCounts(experiment_name) ==
    LET variant_counts == VariantCounts(experiment_name)
        keys == Range(Keys(experiments[experiment_name].traffic_split))
    IN  [v \in keys |->
            [enroll |-> GetCount(variant_counts, v) * MockEnrollRateTenths,
             complete |-> GetCount(variant_counts, v) * MockCompleteRateTenths]]

\* The dict get_experiment_stats(experiment_name) returns; found = FALSE for
\* the empty dict of an unknown experiment.
get_experiment_stats(experiment_name) ==
    IF experiment_name \notin DOMAIN experiments
    THEN [found |-> FALSE]
    ELSE [found |-> TRUE,
          name |-> experiment_name,
          is_active |-> experiments[experiment_name].is_active,
          traffic_split |-> experiments[experiment_name].traffic_split,
          assignments |-> VariantCounts(experiment_name),
          conversions |-> ConversionCounts(experiment_name)]

GetExperimentStats(experiment_name) ==
    /\ get_experiment_stats(experiment_name).found \in BOOLEAN
    /\ UNCHANGED vars

----------------------------------------------------------------------------
(* The process *)

NoAssignments == [l \in ExperimentNames \X Variants |-> 0]

NoConversions == [l \in ExperimentNames \X Variants \X ConversionTypes |-> 0]

\* A process restart: a fresh ABTestManager (empty cache) and a fresh
\* MetricsCollector, on which the same experiment configs are registered again.
Restart ==
    /\ user_assignments # <<>>
    /\ user_assignments' = <<>>
    /\ ab_test_assignments' = NoAssignments
    /\ ab_test_conversions' = NoConversions
    /\ UNCHANGED <<gamification, redis_client, experiments, observed,
                   threads, request, response>>

\* the gamification subsystem is not in use
NoGamification ==
    /\ user_file = None
    /\ today = 0
    /\ updates = None
    /\ processed = 0

Init ==
    /\ NoGamification
    /\ redis_client \in BOOLEAN
    /\ experiments = <<>>
    /\ user_assignments = <<>>
    /\ ab_test_assignments = NoAssignments
    /\ ab_test_conversions = NoConversions
    /\ observed = NoObservation
    /\ threads = <<>>
    /\ request = None
    /\ response = None

Next ==
    \/ \E n \in ExperimentNames, input \in ConfigInputs : CreateExperiment(n, input)
    \/ InitializeExperiments
    \/ \E n \in ExperimentNames, b \in BOOLEAN : SetIsActive(n, b)
    \/ \E u \in Users, n \in ExperimentNames : GetUserVariant(u, n)
    \/ \E u \in Users, n \in ExperimentNames, t \in ConversionTypes : RecordConversion(u, n, t)
    \/ \E n \in ExperimentNames : GetExperimentStats(n)
    \/ Restart

Spec == Init /\ [][Next]_vars

----------------------------------------------------------------------------
(* Properties of the sequential manager *)

\* hash buckets around every boundary of the splits in use, and the users' own
SampleBuckets ==
    {0, 1, 1000, 1001, 5000, 5001, 9000, 9001, 9901, 9902, 9999}
        \cup {MD5(u, n) % HashModulus : u \in Users, n \in ExperimentNames}

Bucket(user_id, experiment_name) == MD5(user_id, experiment_name) % HashModulus

\* the positions of a split whose cumulative probability is >= the hash ratio
Reaching(split, hash_units) ==
    {i \in 1..Len(split) : SumValues(SubSeq(split, 1, i)) >= hash_units}

FirstReaching(split, hash_units) ==
    split[CHOOSE i \in Reaching(split, hash_units) :
              \A j \in Reaching(split, hash_units) : i <= j][1]

Active(experiment_name) ==
    experiment_name \in DOMAIN experiments /\ experiments[experiment_name].is_active

\* C1: once get_user_variant has returned a variant for (u, e) while e was
\* active, every later call for (u, e) that returns while e is active returns
\* that same variant, whatever calls were made in between and also after a
\* restart has emptied the cache.
C1_AssignVariantIdempotent ==
    observed # NoObservation =>
        \A hset_raises \in RedisOutcomes :
            LET out == get_user_variant(observed.user_id, observed.experiment_name,
                                        hset_raises)
            IN  (out.active /\ ~out.raised) => out.ret = observed.variant

\* C1 witness: a treatment variant was returned, the process restarted (the
\* cache is empty again) and the experiment is active: the next call recomputes.
C1_Witness ==
    /\ observed.variant = "treatment"
    /\ user_assignments = <<>>
    /\ Active(observed.experiment_name)
    /\ get_user_variant(observed.user_id, observed.experiment_name, FALSE).ret = "treatment"

\* C2: for an unregistered or inactive experiment get_user_variant returns
\* "control", raises nothing, and leaves user_assignments and the assignment
\* counter as they were, for every user.
C2_InactiveReturnsControl ==
    \A u \in Users, e \in ExperimentNames, hset_raises \in RedisOutcomes :
        ~Active(e) =>
            LET out == get_user_variant(u, e, hset_raises)
            IN  /\ out.ret = "control"
                /\ ~out.raised
                /\ out.user_assignments = user_assignments
                /\ out.ab_test_assignments = ab_test_assignments

\* C2 witness: a user holds a cached treatment assignment for an experiment
\* that has been deactivated, and the call returns control.
C2_Witness ==
    \E u \in Users, e \in DOMAIN experiments :
        /\ ~experiments[e].is_active
        /\ Cached(u, e)
        /\ user_assignments[u][e] = "treatment"
        /\ get_user_variant(u, e, FALSE).ret = "control"

\* C3 (as claimed): the assigned variant is the first one, in walk order, whose
\* cumulative probability is >= the hash ratio, and the last variant of the
\* declared order when no cumulative boundary reaches the ratio.
C3_FallbackIsLastVariant ==
    \A e \in DOMAIN experiments, h \in SampleBuckets :
        LET x == experiments[e]
        IN  AssignBucket(h, x) =
                IF Reaching(x.traffic_split, h) # {}
                THEN FirstReaching(x.traffic_split, h)
                ELSE x.variants[Len(x.variants)]

\* C3 (amended): the assigned variant is the first one, in walk order, whose
\* cumulative probability is >= the hash ratio, and the first key of
\* traffic_split when no cumulative boundary reaches the ratio.
C3_FallbackIsFirstVariant ==
    \A e \in DOMAIN experiments, h \in SampleBuckets :
        LET x == experiments[e]
        IN  AssignBucket(h, x) =
                IF Reaching(x.traffic_split, h) # {}
                THEN FirstReaching(x.traffic_split, h)
                ELSE Keys(x.traffic_split)[1]

\* C3 witness: a user whose hash ratio lies above the whole split has been
\* assigned, and holds the first key of the split.
C3_Witness ==
    \E u \in Users, e \in DOMAIN experiments :
        /\ Cached(u, e)
        /\ Reaching(experiments[e].traffic_split, Bucket(u, e)) = {}
        /\ user_assignments[u][e] = Keys(experiments[e].traffic_split)[1]
        /\ user_assignments[u][e] # experiments[e].variants[Len(experiments[e].variants)]

\* C4 (as claimed): the variants are walked in the order of the declared
\* variants list, so the variant of a hash ratio that some boundary reaches is
\* the first variant of that list whose cumulative probability reaches it.
C4_WalkInDeclaredOrder ==
    \A e \in DOMAIN experiments, h \in SampleBuckets :
        LET x == experiments[e]
        IN  Reaching(x.traffic_split, h) # {} =>
                AssignBucket(h, x) = FirstReaching(DeclaredSplit(x), h)

\* C4 (amended): the variants are walked in the key order of traffic_split;
\* the variant of a hash ratio depends on that mapping (its key order and its
\* probabilities) alone, and not on the declared variants list.
C4_WalkInSplitKeyOrder ==
    \A e \in DOMAIN experiments, h \in SampleBuckets :
        LET x == experiments[e]
            others == {<<"control", "treatment">>, <<"treatment", "control">>,
                       <<"holdout", "control", "treatment">>}
        IN  /\ Reaching(x.traffic_split, h) # {} =>
                    AssignBucket(h, x) = FirstReaching(x.traffic_split, h)
            /\ \A vs \in others :
                    AssignBucket(h, [x EXCEPT !.variants = vs]) = AssignBucket(h, x)

\* C4 witness: a user was assigned in an experiment whose traffic_split keys
\* are in another order than its variants list, and holds the variant of the
\* key order, which is not the variant of the declared order.
C4_Witness ==
    \E u \in Users, e \in DOMAIN experiments :
        /\ Cached(u, e)
        /\ Keys(experiments[e].traffic_split) # experiments[e].variants
        /\ Reaching(experiments[e].traffic_split, Bucket(u, e)) # {}
        /\ user_assignments[u][e] = FirstReaching(experiments[e].traffic_split, Bucket(u, e))
        /\ user_assignments[u][e] # FirstReaching(DeclaredSplit(experiments[e]), Bucket(u, e))

\* the number of the 10000 hash buckets the hybrid recommender's 90/10 split
\* sends to a variant
HybridBuckets(variant) ==
    Cardinality({h \in 0..(HashModulus - 1) :
        AssignBucket(h, ExperimentConfig("new_algorithm_v1", <<"control", "treatment">>,
                                         HybridTrafficSplit)) = variant})

HybridControlBuckets == HybridBuckets("control")

HybridTreatmentBuckets == HybridBuckets("treatment")

\* C5: under the 90/10 split between 8900 and 9100 of the 10000 hash buckets
\* map to control and all the others to treatment, and a user assigned in an
\* experiment with that split holds the variant of the user's bucket: control
\* up to the 0.9 boundary, treatment above it.
C5_NinetyTenWithinOnePoint ==
    /\ HybridControlBuckets \in 8900..9100
    /\ HybridTreatmentBuckets = HashModulus - HybridControlBuckets
    /\ \A e \in DOMAIN experiments, u \in Users :
          (experiments[e].traffic_split = HybridTrafficSplit /\ Cached(u, e)) =>
              user_assignments[u][e] =
                  IF Bucket(u, e) <= 9000 THEN "control" ELSE "treatment"

\* C5 witness: in an experiment with the 90/10 split one user was assigned to
\* control and another to treatment.
C5_Witness ==
    \E e \in DOMAIN experiments, u1 \in Users, u2 \in Users :
        /\ experiments[e].traffic_split = HybridTrafficSplit
        /\ Cached(u1, e) /\ user_assignments[u1][e] = "control"
        /\ Cached(u2, e) /\ user_assignments[u2][e] = "treatment"

OtherConfigs(n) ==
    {input \in ConfigInputs :
        /\ SumValues(input.traffic_split) \in 9900..10100
        /\ input.traffic_split # experiments[n].traffic_split}

\* C7 (state part): create_experiment with a registered name returns False and
\* leaves the experiments as they are, and _initialize_experiments of a second
\* HybridRecommender leaves every registered config as it is.
C7_DuplicateFails ==
    \A n \in DOMAIN experiments :
        /\ \A input \in OtherConfigs(n), hset_raises \in RedisOutcomes :
              LET out == create_experiment(n, input.variants, input.traffic_split,
                                           hset_raises)
              IN  out.ret = "False" /\ out.experiments = experiments
        /\ initialize_experiments(1, experiments)[n] = experiments[n]

\* C7 (step part): no step replaces the variants or the traffic_split of a
\* registered name, and a step that changes the registry leaves every cached
\* assignment alone.
C7_ConfigKept ==
    /\ \A n \in DOMAIN experiments :
          /\ n \in DOMAIN experiments'
          /\ experiments'[n].variants = experiments[n].variants
          /\ experiments'[n].traffic_split = experiments[n].traffic_split
    /\ experiments' # experiments => user_assignments' = user_assignments

\* C7: registering a name that is already registered fails and leaves the
\* registered config (variants, traffic_split, is_active) and the cached
\* assignments unchanged, also when it is a second HybridRecommender that
\* registers its experiments again.
C7_DuplicateNameRejected == [](C7_DuplicateFails) /\ [][C7_ConfigKept]_vars

\* C7 witness: an experiment with a cached assignment, deactivated since it
\* was registered, for which another valid config is refused.
C7_Witness ==
    \E n \in DOMAIN experiments, u \in Users :
        /\ Cached(u, n)
        /\ ~experiments[n].is_active
        /\ OtherConfigs(n) # {}
        /\ \A input \in OtherConfigs(n) :
              create_experiment(n, input.variants, input.traffic_split, FALSE).ret = "False"

\* C8: record_conversion never fails the caller and records exactly one
\* conversion event, under (e, v, t) where v is the variant get_user_variant
\* returns at that moment: the user's assigned variant in an active
\* experiment, "control" in an unknown or inactive one.
C8_ExactlyOneConversionRecorded ==
    \A u \in Users, e \in ExperimentNames, t \in ConversionTypes,
       hset_raises \in RedisOutcomes :
        LET out == record_conversion(u, e, t, hset_raises)
            v == IF ~Active(e) THEN "control"
                 ELSE IF Cached(u, e) THEN user_assignments[u][e]
                 ELSE AssignUserToVariant(u, experiments[e])
        IN  /\ ~out.raised
            /\ out.ab_test_conversions =
                  [ab_test_conversions EXCEPT ![<<e, v, t>>] = @ + 1]

\* the number of conversion events recorded so far for (e, variant, type)
RecordedConversions(e, variant, conversion_type) ==
    ab_test_conversions[<<e, variant, conversion_type>>]

\* C9: get_experiment_stats reports for each variant the number of users
\* currently assigned to it, and for each variant and conversion type the
\* number of conversion events recorded so far (0 when none was recorded).
\* The reported conversion counts are in tenths, hence the factor 10.
C9_StatsCountRecordedEvents ==
    \A e \in DOMAIN experiments :
        LET stats == get_experiment_stats(e)
        IN  /\ stats.found
            /\ \A v \in Range(Keys(experiments[e].traffic_split)) :
                  /\ GetCount(stats.assignments, v) =
                        Cardinality(AssignedUsers(e, v))
                  /\ stats.conversions[v].enroll = 10 * RecordedConversions(e, v, "enroll")
                  /\ stats.conversions[v].complete = 10 * RecordedConversions(e, v, "complete")

----------------------------------------------------------------------------
(* ABTestManager.get_user_variant, statement by statement, called (directly
   or by record_conversion) from
   request threads on the process-wide manager (ab_test_manager, built with
   no redis_client) after HybridRecommender registered its experiments.
   No statement of the method takes a lock.  threads[t].pc is the statement
   thread t executes next. *)

NumThreads == 3

ThreadIds == 1..NumThreads

Idle == [pc |-> "idle", user_id |-> None, experiment_name |-> None,
         variant |-> None, ret |-> None, conversion_type |-> None]

\* the conversion events request threads record
ThreadConversionTypes == {"enroll"}

\* thread t is at statement pc of a call
At(t, pc) == t \in DOMAIN threads /\ threads[t].pc = pc

Goto(t, pc) == threads' = [threads EXCEPT ![t].pc = pc]

\* return value, or raise KeyError (pc = "raised")
Finish(t, pc, value) == threads' = [threads EXCEPT ![t].pc = pc, ![t].ret = value]

\* a request thread enters get_user_variant(user_id, experiment_name)
Call(t, user_id, experiment_name) ==
    /\ At(t, "idle")
    /\ threads' = [threads EXCEPT ![t] = [Idle EXCEPT !.pc = "check_experiment",
                                                     !.user_id = user_id,
                                                     !.experiment_name = experiment_name]]
    /\ UNCHANGED <<gamification, redis_client, experiments, user_assignments, ab_test_assignments,
                   ab_test_conversions, observed,
                   request, response>>

\* a request thread enters record_conversion(user_id, experiment_name,
\* conversion_type): line 161, the call of get_user_variant
CallRecordConversion(t, user_id, experiment_name, conversion_type) ==
    /\ At(t, "idle")
    /\ threads' = [threads EXCEPT ![t] = [Idle EXCEPT !.pc = "check_experiment",
                                                     !.user_id = user_id,
                                                     !.experiment_name = experiment_name,
                                                     !.conversion_type = conversion_type]]
    /\ UNCHANGED <<gamification, redis_client, experiments, user_assignments, ab_test_assignments,
                   ab_test_conversions, observed,
                   request, response>>

\* lines 101-107
CheckExperiment(t) ==
    /\ At(t, "check_experiment")
    /\ IF threads[t].experiment_name \notin DOMAIN experiments
       THEN Finish(t, "done", "control")
       ELSE IF ~experiments[threads[t].experiment_name].is_active
       THEN Finish(t, "done", "control")
       ELSE Goto(t, "check_cache")
    /\ UNCHANGED <<gamification, redis_client, experiments, user_assignments, ab_test_assignments,
                   ab_test_conversions, observed,
                   request, response>>

\* line 110, and line 114 when the pair is not cached
CheckCache(t) ==
    /\ At(t, "check_cache")
    /\ IF Cached(threads[t].user_id, threads[t].experiment_name)
       THEN Goto(t, "read_cache")
       ELSE threads' = [threads EXCEPT
                ![t].pc = "check_user",
                ![t].variant = AssignUserToVariant(threads[t].user_id,
                                   experiments[threads[t].experiment_name])]
    /\ UNCHANGED <<gamification, redis_client, experiments, user_assignments, ab_test_assignments,
                   ab_test_conversions, observed,
                   request, response>>

\* line 111: the two subscripts of the return statement
ReadCache(t) ==
    /\ At(t, "read_cache")
    /\ IF Cached(threads[t].user_id, threads[t].experiment_name)
       THEN Finish(t, "done", user_assignments[threads[t].user_id][threads[t].experiment_name])
       ELSE Finish(t, "raised", "KeyError")
    /\ UNCHANGED <<gamification, redis_client, experiments, user_assignments, ab_test_assignments,
                   ab_test_conversions, observed,
                   request, response>>

\* line 117
CheckUser(t) ==
    /\ At(t, "check_user")
    /\ IF threads[t].user_id \notin DOMAIN user_assignments
       THEN Goto(t, "new_dict")
       ELSE Goto(t, "store")
    /\ UNCHANGED <<gamification, redis_client, experiments, user_assignments, ab_test_assignments,
                   ab_test_conversions, observed,
                   request, response>>

\* line 118
NewDict(t) ==
    /\ At(t, "new_dict")
    /\ user_assignments' = Put(user_assignments, threads[t].user_id, <<>>)
    /\ Goto(t, "store")
    /\ UNCHANGED <<gamification, redis_client, experiments, ab_test_assignments,
                   ab_test_conversions, observed,
                   request, response>>

\* line 119
Store(t) ==
    /\ At(t, "store")
    /\ IF threads[t].user_id \in DOMAIN user_assignments
       THEN /\ user_assignments' =
                  Put(user_assignments, threads[t].user_id,
                      Put(user_assignments[threads[t].user_id],
                          threads[t].experiment_name, threads[t].variant))
            /\ Goto(t, "metric")
       ELSE /\ Finish(t, "raised", "KeyError")
            /\ UNCHANGED user_assignments
    /\ UNCHANGED <<gamification, redis_client, experiments, ab_test_assignments,
                   ab_test_conversions, observed,
                   request, response>>

\* line 122, the skipped Redis block (redis_client is None) and line 132
Metric(t) ==
    /\ At(t, "metric")
    /\ ab_test_assignments' =
          [ab_test_assignments EXCEPT
              ![<<threads[t].experiment_name, threads[t].variant>>] = @ + 1]
    /\ Finish(t, "done", threads[t].variant)
    /\ UNCHANGED <<gamification, redis_client, experiments, user_assignments,
                   ab_test_conversions, observed,
                   request, response>>

\* record_conversion after its get_user_variant returned: lines 164-168,
\* the skipped Redis block (redis_client is None) and line 193
RecordAbConversion(t) ==
    /\ At(t, "done")
    /\ threads[t].conversion_type # None
    /\ ab_test_conversions' =
          [ab_test_conversions EXCEPT
              ![<<threads[t].experiment_name, threads[t].ret,
                  threads[t].conversion_type>>] = @ + 1]
    /\ Goto(t, "recorded")
    /\ UNCHANGED <<gamification, redis_client, experiments, user_assignments,
                   ab_test_assignments, observed,
                   request, response>>

\* record_conversion after its get_user_variant raised: lines 195-196
CatchException(t) ==
    /\ At(t, "raised")
    /\ threads[t].conversion_type # None
    /\ Goto(t, "recorded")
    /\ UNCHANGED <<gamification, redis_client, experiments, user_assignments, ab_test_assignments,
                   ab_test_conversions, observed,
                   request, response>>

ConcInit ==
    /\ NoGamification
    /\ redis_client = FALSE
    /\ experiments = initialize_experiments(1, <<>>)
    /\ user_assignments = <<>>
    /\ ab_test_assignments = NoAssignments
    /\ ab_test_conversions = NoConversions
    /\ observed = NoObservation
    /\ threads = [t \in ThreadIds |-> Idle]
    /\ request = None
    /\ response = None

ConcNext ==
    \/ \E t \in ThreadIds, u \in Users, n \in ExperimentNames : Call(t, u, n)
    \/ \E t \in ThreadIds : CheckExperiment(t)
    \/ \E t \in ThreadIds : CheckCache(t)
    \/ \E t \in ThreadIds : ReadCache(t)
    \/ \E t \in ThreadIds : CheckUser(t)
    \/ \E t \in ThreadIds : NewDict(t)
    \/ \E t \in ThreadIds : Store(t)
    \/ \E t \in ThreadIds : Metric(t)
    \/ \E t \in ThreadIds, u \in Users, n \in ExperimentNames,
          c \in ThreadConversionTypes : CallRecordConversion(t, u, n, c)
    \/ \E t \in ThreadIds : RecordAbConversion(t)
    \/ \E t \in ThreadIds : CatchException(t)

ConcSpec == ConcInit /\ [][ConcNext]_vars

\* the calls made so far were all made for the pair (u, e)
OnlyCallsFor(u, e) ==
    \A t \in ThreadIds :
        At(t, "idle") \/ (threads[t].user_id = u /\ threads[t].experiment_name = e)

Finished(t) == At(t, "done") \/ At(t, "raised")

\* C10: when the only calls in flight are concurrent first-time calls for one
\* pair (u, e), every call that has finished has returned the variant of the
\* pair, none has raised, and once all have finished the cache holds exactly
\* that variant for the pair.
C10_ConcurrentFirstAssignmentHarmless ==
    \A u \in Users, e \in ExperimentNames :
        OnlyCallsFor(u, e) =>
            /\ \A t \in ThreadIds :
                  Finished(t) =>
                      /\ At(t, "done")
                      /\ threads[t].ret = AssignUserToVariant(u, experiments[e])
            /\ (\A t \in ThreadIds : Finished(t)) =>
                  /\ Cached(u, e)
                  /\ user_assignments[u][e] = AssignUserToVariant(u, experiments[e])

----------------------------------------------------------------------------
(* HybridRecommender: weights and scores.

   A weight given by a caller is held in thousandths.  A normalized weight
   round(v / total_weight, 10) is held exactly, in units of 1e-10, as the two
   limbs <<hi, lo>> of hi * 10^5 + lo.  A raw score is held in hundredths and
   a normalized score in units of 1/200, so that (score + 1) / 2 is exact.
   A combined score is a sum of normalized score * weight, in units of
   1/200 * 1e-10, held in two limbs as well. *)

Limb == 100000          \* 10^5: half of the ten decimals of round(x, 10)

WeightUnits == 1000     \* the weight 1.0 as a caller passes it

ScoreUnits == 100       \* the raw score 1.0

NormUnits == 200        \* the normalized score 1.0

\* key in d
HasKey(d, key) == \E i \in 1..Len(d) : d[i][1] = key

\* d.get(key, default)
GetOr(d, key, default) ==
    IF HasKey(d, key) THEN d[CHOOSE i \in 1..Len(d) : d[i][1] = key][2] ELSE default

\* the two-limb number hi * 10^5 + lo with 0 <= lo < 10^5
Carry(hi, lo) == <<hi + (lo \div Limb), lo % Limb>>

\* a + b and a < b on two-limb numbers
Plus(a, b) == Carry(a[1] + b[1], a[2] + b[2])

Less(a, b) == a[1] < b[1] \/ (a[1] = b[1] /\ a[2] < b[2])

\* k * a for a small integer k >= 0
Times(k, a) == Carry(k * a[1], k * a[2])

\* round(v / total, 10) in units of 1e-10, by long division; a quotient
\* exactly half way between two values goes to the even one
RoundedQuotient(v, total) ==
    LET hi == (v * Limb) \div total
        r1 == (v * Limb) % total
        lo == (r1 * Limb) \div total
        r2 == (r1 * Limb) % total
        up == IF 2 * r2 > total THEN 1
              ELSE IF 2 * r2 = total THEN lo % 2
              ELSE 0
    IN  Carry(hi, lo + up)

\* a weight that was not divided: v thousandths in units of 1e-10
Unscaled(v) == Carry(v * (Limb \div WeightUnits), 0)

\* the sum of the values of a weights dict whose values are two-limb numbers
RECURSIVE SumWeights(_)
SumWeights(weights) ==
    IF weights = <<>> THEN <<0, 0>>
    ELSE Plus(weights[1][2], SumWeights(Tail(weights)))

\* total_weight = sum(weights.values());
\* if total_weight > 0: weights = {k: round(v / total_weight, 10) ...}
normalize_weights(weights) ==
    LET total_weight == SumValues(weights)
    IN  [i \in 1..Len(weights) |->
            <<weights[i][1],
              IF total_weight > 0
              THEN RoundedQuotient(weights[i][2], total_weight)
              ELSE Unscaled(weights[i][2])>>]

\* HybridRecommender.default_weights when no default_weights argument is
\* given; the constructor's normalization leaves 0.7, 0.2, 0.1 as they are
default_weights == << <<"als", 700>>, <<"content", 200>>, <<"pop", 100>> >>

\* self.experiments["new_algorithm_v1"]["treatment_weights"]
treatment_weights == << <<"als", 600>>, <<"content", 300>>, <<"pop", 100>> >>

----------------------------------------------------------------------------
(* HybridRecommender._combine_recommendations, _normalize_score,
   _get_top_recommendations *)

\* rec.get(key, 0.0)
Field(rec, key) == IF key \in DOMAIN rec THEN rec[key] ELSE 0

\* max(0.0, min(1.0, x)) on normalized scores
Clamp(x) == IF x < 0 THEN 0 ELSE IF x > NormUnits THEN NormUnits ELSE x

normalize_score(score, approach) ==
    IF approach = "als"
    THEN Clamp(score + ScoreUnits)      \* (score + 1) / 2
    ELSE Clamp(2 * score)               \* content, popularity, fallback

\* the field of a rec that holds its score, by approach
ScoreKey(approach) == IF approach = "content" THEN "similarity_score" ELSE "score"

\* combined_scores[item_id] += amount, on a defaultdict(float)
AddScore(combined_scores, item_id, amount) ==
    IF HasKey(combined_scores, item_id)
    THEN [i \in 1..Len(combined_scores) |->
            IF combined_scores[i][1] = item_id
            THEN <<item_id, Plus(combined_scores[i][2], amount)>>
            ELSE combined_scores[i]]
    ELSE Append(combined_scores, <<item_id, amount>>)

\* the loop over the recs of one approach
RECURSIVE CombineRecs(_, _, _, _)
CombineRecs(recs, approach, weight, combined_scores) ==
    IF recs = <<>> THEN combined_scores
    ELSE LET rec == Head(recs)
             item_id == IF "item_id" \in DOMAIN rec THEN rec.item_id ELSE ""
             normalized_score == normalize_score(Field(rec, ScoreKey(approach)), approach)
         IN  CombineRecs(Tail(recs), approach, weight,
                 IF item_id = "" THEN combined_scores
                 ELSE AddScore(combined_scores, item_id, Times(normalized_score, weight)))

\* the weight 1.0
One == Unscaled(WeightUnits)

\* the loop over recommendations.items()
RECURSIVE CombineFrom(_, _, _, _)
CombineFrom(recommendations, weights, i, combined_scores) ==
    IF i > Len(recommendations) THEN combined_scores
    ELSE LET approach == recommendations[i][1]
             recs == recommendations[i][2]
         IN  CombineFrom(recommendations, weights, i + 1,
                 IF recs = <<>> THEN combined_scores
                 ELSE IF approach = "fallback"
                 THEN CombineRecs(recs, approach, GetOr(weights, approach, One),
                                  combined_scores)
                 ELSE IF ~HasKey(weights, approach) THEN combined_scores
                 ELSE CombineRecs(recs, approach, GetOr(weights, approach, One),
                                  combined_scores))

\* combined_scores as a dict in insertion order: <<item_id, score>> pairs
combine_recommendations(recommendations, weights) ==
    CombineFrom(recommendations, weights, 1, <<>>)

\* sorted() is stable: x goes behind every item whose score is not smaller
RECURSIVE InsertByScore(_, _)
InsertByScore(sorted_items, x) ==
    IF sorted_items = <<>> THEN <<x>>
    ELSE IF Less(Head(sorted_items)[2], x[2]) THEN <<x>> \o sorted_items
    ELSE <<Head(sorted_items)>> \o InsertByScore(Tail(sorted_items), x)

\* sorted(combined_scores.items(), key=lambda x: x[1], reverse=True)
RECURSIVE SortedByScore(_, _, _)
SortedByScore(items, i, sorted_items) ==
    IF i > Len(items) THEN sorted_items
    ELSE SortedByScore(items, i + 1, InsertByScore(sorted_items, items[i]))

\* s[:N]
Slice(s, N) ==
    IF N >= 0 THEN SubSeq(s, 1, IF N < Len(s) THEN N ELSE Len(s))
    ELSE SubSeq(s, 1, IF Len(s) + N > 0 THEN Len(s) + N ELSE 0)

\* [mutant] one item more than asked for
get_top_recommendations_off_by_one(combined_scores, N) ==
    Slice(SortedByScore(combined_scores, 1, <<>>), N + 1)

\* [mutant] items of equal score come out in the reverse of the order they
\* were first proposed in
get_top_recommendations_ties_reversed(combined_scores, N) ==
    Slice(SortedByScore([i \in 1..Len(combined_scores) |->
                            combined_scores[Len(combined_scores) + 1 - i]],
                        1, <<>>), N)

\* [mutant] the items are cut to N without sorting them
get_top_recommendations_unsorted(combined_scores, N) ==
    Slice(combined_scores, N)

get_top_recommendations(combined_scores, N) ==
    Slice(SortedByScore(combined_scores, 1, <<>>), N)

----------------------------------------------------------------------------
(* HybridRecommender._generate_explanations, _add_explanations *)

\* next((rec for rec in recs if rec.get('item_id') == item_id), None) is a rec
Proposes(recs, item_id) ==
    \E i \in 1..Len(recs) : "item_id" \in DOMAIN recs[i] /\ recs[i].item_id = item_id

\* [mutant] the weight of the approach is not looked at
ExplainsWhateverWeight(approach, item_id, recommendations, weights) ==
    /\ HasKey(recommendations, approach)
    /\ Proposes(GetOr(recommendations, approach, <<>>), item_id)

\* approach in recommendations and weights.get(approach, 0) > 0 and the
\* item is among the recs of the approach
Explains(approach, item_id, recommendations, weights) ==
    /\ HasKey(recommendations, approach)
    /\ Less(<<0, 0>>, GetOr(weights, approach, <<0, 0>>))
    /\ Proposes(GetOr(recommendations, approach, <<>>), item_id)

\* the courses courses_df has rows for, when it is set
Catalog == {"x", "y"}

\* courses_df holds a row for the item (every row has skill_tags and a title)
InCatalog(courses_df, item_id) == courses_df # None /\ item_id \in Catalog

generate_explanations(item_id, recommendations, weights, courses_df) ==
    LET tag(approach, text) ==
            IF Explains(approach, item_id, recommendations, weights)
            THEN <<text>> ELSE <<>>
        explanations ==
            tag("als", "similar_users_enrolled")
            \o tag("content", IF InCatalog(courses_df, item_id)
                              THEN "skill_match" ELSE "similar_course_content")
            \o tag("pop", "popular")
            \o tag("fallback", "recommended_for_you")
    IN  IF explanations # <<>> THEN explanations
        ELSE IF InCatalog(courses_df, item_id) THEN <<"course_match">>
        ELSE <<"recommended_for_you">>

\* [mutant] every tag is shown, the cut to the top two reasons left out
add_explanations_untruncated(top_recommendations, recommendations, weights, courses_df) ==
    [rank \in 1..Len(top_recommendations) |->
        LET item_id == top_recommendations[rank][1]
            explanations == generate_explanations(item_id, recommendations, weights,
                                                  courses_df)
        IN  [item_id |-> item_id,
             score |-> top_recommendations[rank][2],
             rank |-> rank,
             explanations |-> explanations,
             all_explanations |-> explanations]]

add_explanations(top_recommendations, recommendations, weights, courses_df) ==
    [rank \in 1..Len(top_recommendations) |->
        LET item_id == top_recommendations[rank][1]
            explanations == generate_explanations(item_id, recommendations, weights,
                                                  courses_df)
        IN  [item_id |-> item_id,
             score |-> top_recommendations[rank][2],
             rank |-> rank,
             explanations |-> IF Len(explanations) >= 2
                              THEN SubSeq(explanations, 1, 2) ELSE explanations,
             all_explanations |-> explanations]]

\* "fallback_course_001", ...: the ids _create_fallback_recommendations makes
FallbackCourses ==
    <<"fallback_course_001", "fallback_course_002", "fallback_course_003",
      "fallback_course_004", "fallback_course_005", "fallback_course_006">>

FallbackScore == 50     \* "score": 0.5

create_fallback_recommendations(N) ==
    [i \in 1..(IF N > 0 THEN N ELSE 0) |->
        [item_id |-> FallbackCourses[i], score |-> FallbackScore]]

----------------------------------------------------------------------------
(* HybridRecommender.hybrid_recommend.  The strategies (ALSRecommender,
   BaselineRecommender) are collaborators: a call returns a list of recs or
   raises.  A request holds the arguments of the call and what the
   collaborators answer during it. *)

Raises == [raises |-> TRUE, recs |-> <<>>]

Returns(recs) == [raises |-> FALSE, recs |-> recs]

\* a rec of ALSRecommender.recommend / BaselineRecommender.recommend
ScoreRec(item_id, score) == [item_id |-> item_id, score |-> score]

\* a rec of BaselineRecommender.get_similar_items
SimilarRec(item_id, score) == [item_id |-> item_id, similarity_score |-> score]

\* [mutant] the fallback is taken as soon as one strategy gave nothing
none_returned_by_some(recommendations) ==
    \/ recommendations = <<>>
    \/ \E i \in 1..Len(recommendations) : recommendations[i][2] = <<>>

\* not any(recommendations.values())
none_returned(recommendations) ==
    \A i \in 1..Len(recommendations) : recommendations[i][2] = <<>>

\* the recommendations dict built by lines 162-213, in insertion order
\* (the same baseline_model.recommend answer serves lines 190 and 201)
gather_recommendations(req, weights) ==
    LET entry(approach, call) ==
            IF call.raises THEN << <<approach, <<>> >> >>
            ELSE IF call.recs # <<>> THEN << <<approach, call.recs>> >>
            ELSE <<>>
        als == IF req.als_model.is_fitted /\ HasKey(weights, "als")
               THEN entry("als", req.als_model.recommend)
               ELSE <<>>
        content ==
            IF req.baseline_model.is_fitted /\ HasKey(weights, "content")
            THEN IF req.user_courses = "raises" THEN entry("content", Raises)
                 ELSE IF req.user_courses = "some"
                 THEN entry("content", req.baseline_model.get_similar_items)
                 ELSE entry("content", req.baseline_model.recommend)
            ELSE <<>>
        pop == IF req.baseline_model.is_fitted /\ HasKey(weights, "pop")
               THEN entry("pop", req.baseline_model.recommend)
               ELSE <<>>
        recommendations == als \o content \o pop
    IN  IF none_returned(recommendations)
        THEN recommendations
                 \o << <<"fallback", create_fallback_recommendations(req.N)>> >>
        ELSE recommendations

\* lines 139-158: the weights the call fuses with, given the user's variant
effective_weights(req, variant) ==
    LET weights == IF req.enable_ab_testing /\ variant = "treatment"
                   THEN treatment_weights
                   ELSE IF req.weights.is_none THEN default_weights
                   ELSE req.weights.dict
    IN  normalize_weights(weights)

\* [mutant] a strategy's exception is not caught
fuse_unguarded(req, variant) ==
    LET weights == effective_weights(req, variant)
        recommendations == gather_recommendations(req, weights)
    IN  IF \E i \in 1..Len(recommendations) :
              recommendations[i][1] # "fallback" /\ recommendations[i][2] = <<>>
        THEN [raised |-> TRUE, recommendations |-> <<>>]
        ELSE [raised |-> FALSE,
              recommendations |->
                  add_explanations(
                      get_top_recommendations(
                          combine_recommendations(recommendations, weights), req.N),
                      recommendations, weights, req.courses_df)]

\* lines 152-222 for a user in variant
fuse(req, variant) ==
    LET weights == effective_weights(req, variant)
        recommendations == gather_recommendations(req, weights)
        combined_scores == combine_recommendations(recommendations, weights)
        top_recommendations == get_top_recommendations(combined_scores, req.N)
    IN  [raised |-> FALSE,
         recommendations |->
             add_explanations(top_recommendations, recommendations, weights,
                              req.courses_df)]

\* The outcome of hybrid_recommend(user_id, N, weights): what it returns (or
\* that it raised) and the state of the A/B manager it leaves.
hybrid_recommend(req, hset_raises) ==
    LET out == IF req.enable_ab_testing
               THEN get_user_variant(req.user_id, "new_algorithm_v1", hset_raises)
               ELSE unchanged_return("control", FALSE)
    IN  IF out.raised
        THEN [raised |-> TRUE, variant |-> None, recommendations |-> <<>>,
              user_assignments |-> out.user_assignments,
              ab_test_assignments |-> out.ab_test_assignments]
        ELSE [raised |-> fuse(req, out.ret).raised, variant |-> out.ret,
              recommendations |-> fuse(req, out.ret).recommendations,
              user_assignments |-> out.user_assignments,
              ab_test_assignments |-> out.ab_test_assignments]

----------------------------------------------------------------------------
(* The requests served *)

RequestedN == {0, 1, 2, 5}

ManyStrategies == 39    \* the size of the largest weight set passed

\* n strategies of equal weight 0.001
EqualWeights(n) == [i \in 1..n |-> <<"strategy_" \o ToString(i), 1>>]

\* the weights dicts passed: empty, summing to zero, one strategy alone
\* (the others absent, or present with weight 0), a three-way blend, equal
\* thirds, and many strategies of equal weight
WeightDicts ==
    { <<>>,
      << <<"als", 0>>, <<"content", 0>> >>,
      << <<"als", 1000>> >>,
      << <<"als", 1000>>, <<"content", 0>>, <<"pop", 0>> >>,
      << <<"als", 0>>, <<"content", 0>>, <<"pop", 1000>> >>,
      << <<"als", 500>>, <<"content", 300>>, <<"pop", 200>> >>,
      << <<"als", 1>>, <<"content", 1>>, <<"pop", 1>> >>,
      EqualWeights(ManyStrategies) }

\* the weights argument: None, or a dict
WeightInputs ==
    { [is_none |-> TRUE, dict |-> <<>>] }
        \cup { [is_none |-> FALSE, dict |-> d] : d \in WeightDicts }

\* als_model: not fitted (or None), raising, returning nothing, returning
\* ranked recs, a rec twice, and recs with scores out of range or no item_id
AlsModels ==
    { [is_fitted |-> FALSE, recommend |-> Returns(<<>>)],
      [is_fitted |-> TRUE, recommend |-> Raises],
      [is_fitted |-> TRUE, recommend |-> Returns(<<>>)],
      [is_fitted |-> TRUE,
       recommend |-> Returns(<<ScoreRec("x", 90), ScoreRec("y", 10)>>)],
      [is_fitted |-> TRUE,
       recommend |-> Returns(<<ScoreRec("x", 90), ScoreRec("y", 10), ScoreRec("x", 90)>>)],
      [is_fitted |-> TRUE,
       recommend |-> Returns(<<ScoreRec("z", 300), ScoreRec("", 50), ScoreRec("y", -150)>>)] }

RecommendAnswers ==
    { Raises, Returns(<<>>), Returns(<<ScoreRec("z", 50)>>),
      Returns(<<ScoreRec("x", 100), ScoreRec("z", 50)>>) }

SimilarItemsAnswers ==
    { Raises, Returns(<<>>), Returns(<<SimilarRec("y", 80)>>) }

\* baseline_model, and what _get_user_courses finds: "none" (no enrolled
\* course, or no interactions_df), "some", or "raises"
BaselineCases ==
    { [baseline_model |-> [is_fitted |-> FALSE, recommend |-> Returns(<<>>),
                           get_similar_items |-> Returns(<<>>)],
       user_courses |-> "none"] }
    \cup { [baseline_model |-> [is_fitted |-> TRUE, recommend |-> r,
                                get_similar_items |-> Returns(<<>>)],
            user_courses |-> c] :
               r \in RecommendAnswers, c \in {"none", "raises"} }
    \cup { [baseline_model |-> [is_fitted |-> TRUE, recommend |-> r,
                                get_similar_items |-> g],
            user_courses |-> "some"] :
               r \in RecommendAnswers, g \in SimilarItemsAnswers }

\* courses_df: not set, or rows for the courses of Catalog
CoursesInputs == { None, "catalog" }

Requests ==
    { [user_id |-> u, N |-> n, weights |-> w, enable_ab_testing |-> ab,
       als_model |-> a, baseline_model |-> b.baseline_model,
       user_courses |-> b.user_courses, courses_df |-> c] :
         u \in Users, n \in RequestedN, w \in WeightInputs, ab \in BOOLEAN,
         a \in AlsModels, b \in BaselineCases, c \in CoursesInputs }

\* no call served yet
Pending == [raised |-> FALSE, variant |-> None, recommendations |-> <<>>,
            served |-> FALSE]

HybridRecommend ==
    /\ response = Pending
    /\ \E hset_raises \in RedisOutcomes :
        LET out == hybrid_recommend(request, hset_raises)
        IN  /\ response' = [raised |-> out.raised, variant |-> out.variant,
                            recommendations |-> out.recommendations,
                            served |-> TRUE]
            /\ user_assignments' = out.user_assignments
            /\ ab_test_assignments' = out.ab_test_assignments
    /\ UNCHANGED <<gamification, redis_client, experiments, ab_test_conversions, observed,
                   threads, request>>

\* a HybridRecommender on the process-wide manager, about to serve a request
FuseInit ==
    /\ NoGamification
    /\ request \in Requests
    /\ response = Pending
    /\ redis_client = FALSE
    /\ experiments = IF request.enable_ab_testing
                     THEN initialize_experiments(1, <<>>) ELSE <<>>
    /\ user_assignments = <<>>
    /\ ab_test_assignments = NoAssignments
    /\ ab_test_conversions = NoConversions
    /\ observed = NoObservation
    /\ threads = <<>>

FuseNext == HybridRecommend

FuseSpec == FuseInit /\ [][FuseNext]_vars

----------------------------------------------------------------------------
(* Properties of hybrid_recommend *)

\* the call was served and returned a list
Returned == response.served /\ ~response.raised

\* the item_ids of a list of recs or recommendations
ItemIds(recs) == {recs[i].item_id : i \in 1..Len(recs)}

\* the weights the served call fused with
FusedWeights == effective_weights(request, response.variant)

\* the recommendations dict of the served call
Gathered == gather_recommendations(request, FusedWeights)

\* C11: the list hybrid_recommend returns has at most N elements (N >= 0) and
\* no item_id twice, whatever the strategies return, also when several
\* strategies, or one strategy twice, propose the same item.
C11_AtMostNAndNoDuplicates ==
    Returned =>
        /\ Len(response.recommendations) <= request.N
        /\ \A i, j \in 1..Len(response.recommendations) :
              response.recommendations[i].item_id = response.recommendations[j].item_id
                  => i = j

\* C11 witness: ALS proposed x twice, popularity proposed x as well, more was
\* proposed than asked for, and the returned list is full.
C11_Witness ==
    /\ Returned
    /\ request.N = 2
    /\ Len(response.recommendations) = 2
    /\ HasKey(Gathered, "als") /\ HasKey(Gathered, "pop")
    /\ Cardinality({i \in 1..Len(GetOr(Gathered, "als", <<>>)) :
                       GetOr(Gathered, "als", <<>>)[i].item_id = "x"}) = 2
    /\ Proposes(GetOr(Gathered, "pop", <<>>), "x")
    /\ Cardinality(ItemIds(GetOr(Gathered, "als", <<>>))
                   \cup ItemIds(GetOr(Gathered, "pop", <<>>))) > 2

\* C12: the returned list is in non-increasing order of score, and the
\* element at position i has rank i.
C12_SortedAndRanked ==
    Returned =>
        \A i \in 1..Len(response.recommendations) :
            /\ response.recommendations[i].rank = i
            /\ \A j \in 1..Len(response.recommendations) :
                  i < j => ~Less(response.recommendations[i].score,
                                 response.recommendations[j].score)

\* C12 witness: three items with three different scores were returned, and
\* the best one is not the one that was proposed first.
C12_Witness ==
    /\ Returned
    /\ Len(response.recommendations) = 3
    /\ Less(response.recommendations[2].score, response.recommendations[1].score)
    /\ Less(response.recommendations[3].score, response.recommendations[2].score)
    /\ response.recommendations[1].item_id
          # combine_recommendations(Gathered, FusedWeights)[1][1]

\* the raw score a strategy gave with a rec
RawScore(rec) ==
    IF "similarity_score" \in DOMAIN rec THEN rec.similarity_score ELSE rec.score

\* clamp((raw + 1) / 2, 0, 1) for collaborative filtering, clamp(raw, 0, 1)
\* for content and popularity
ClaimedNorm(raw, approach) ==
    LET x == IF approach = "als" THEN raw + ScoreUnits ELSE 2 * raw
    IN  IF x < 0 THEN 0 ELSE IF x > NormUnits THEN NormUnits ELSE x

\* weight * norm(raw score), summed over the recs of a strategy for the item
RECURSIVE ClaimedFrom(_, _, _, _)
ClaimedFrom(recs, approach, weight, item_id) ==
    IF recs = <<>> THEN <<0, 0>>
    ELSE Plus(IF Head(recs).item_id = item_id
              THEN Times(ClaimedNorm(RawScore(Head(recs)), approach), weight)
              ELSE <<0, 0>>,
              ClaimedFrom(Tail(recs), approach, weight, item_id))

\* the sum over the strategies with candidates and a weight > 0
ClaimedScore(item_id) ==
    LET part(approach) ==
            IF /\ HasKey(Gathered, approach)
               /\ Less(<<0, 0>>, GetOr(FusedWeights, approach, <<0, 0>>))
            THEN ClaimedFrom(GetOr(Gathered, approach, <<>>), approach,
                             GetOr(FusedWeights, approach, <<0, 0>>), item_id)
            ELSE <<0, 0>>
    IN  Plus(part("als"), Plus(part("content"), part("pop")))

\* C13: the combined score of every returned item is the sum, over the
\* strategies that returned candidates and have a weight > 0, of weight *
\* norm(the raw score the strategy gave the item), norm being
\* clamp((raw + 1) / 2, 0, 1) for collaborative filtering and clamp(raw, 0, 1)
\* for content and popularity.  (Responses made of fallback items are left
\* aside; an item a strategy lists twice counts twice.)
C13_ScoreIsWeightedNormalizedSum ==
    (Returned /\ ~HasKey(Gathered, "fallback")) =>
        \A i \in 1..Len(response.recommendations) :
            response.recommendations[i].score
                = ClaimedScore(response.recommendations[i].item_id)

\* the caller's weight set gives 1.0 to approach and 0 to every other key
SingleStrategy(weights, approach) ==
    /\ GetOr(weights, approach, 0) = WeightUnits
    /\ \A i \in 1..Len(weights) : weights[i][1] # approach => weights[i][2] = 0

\* the item_ids of a candidate list in its own order, each id once
RECURSIVE CandidateOrder(_, _)
CandidateOrder(recs, seen) ==
    IF recs = <<>> THEN <<>>
    ELSE IF Head(recs).item_id = "" \/ Head(recs).item_id \in seen
         THEN CandidateOrder(Tail(recs), seen)
         ELSE <<Head(recs).item_id>>
                  \o CandidateOrder(Tail(recs), seen \cup {Head(recs).item_id})

\* the item_ids of the returned list, in order
ReturnedOrder ==
    [i \in 1..Len(response.recommendations) |-> response.recommendations[i].item_id]

\* C14: when the caller's weight set gives 1.0 to a single strategy and 0 to
\* all others, the items are returned in that strategy's own candidate order,
\* truncated to N.  (Stated for a user whose weights are the caller's and a
\* strategy that returned candidates.)
C14_SingleStrategyKeepsItsOrder ==
    \A approach \in {"als", "content", "pop"} :
        ( /\ Returned
          /\ response.variant = "control"
          /\ ~request.weights.is_none
          /\ SingleStrategy(request.weights.dict, approach)
          /\ GetOr(Gathered, approach, <<>>) # <<>> )
        => ReturnedOrder
               = Slice(CandidateOrder(GetOr(Gathered, approach, <<>>), {}),
                       request.N)

\* 1.0 and 1e-9 in units of 1e-10
OneExactly == <<Limb, 0>>

SumTolerance == <<0, 10>>

\* C15: for a weight set with positive sum (any number of strategies), the
\* weights hybrid_recommend fuses with sum to 1.0 within 1e-9.
C15_NormalizedWeightsSumToOne ==
    (response.served /\ Less(<<0, 0>>, SumWeights(FusedWeights))) =>
        /\ ~Less(Plus(SumWeights(FusedWeights), SumTolerance), OneExactly)
        /\ ~Less(Plus(OneExactly, SumTolerance), SumWeights(FusedWeights))

\* the call was made with the caller's own weight set, which is empty or sums
\* to zero
InvalidWeights ==
    /\ response.served
    /\ ~(request.enable_ab_testing /\ response.variant = "treatment")
    /\ ~request.weights.is_none
    /\ SumValues(request.weights.dict) = 0

\* C16: a call with a weight set that is empty or sums to zero ends with an
\* error for the caller; no list (of fallback items or any other) is returned.
C16_InvalidWeightsRejected == InvalidWeights => response.raised

\* approach has a key in the fused weight set and a weight > 0
Weighted(approach) == Less(<<0, 0>>, GetOr(FusedWeights, approach, <<0, 0>>))

\* C17: a strategy whose weight is 0 or whose key is absent is excluded from
\* fusion: every returned item was proposed by a strategy with a weight > 0.
\* (Stated for a weight set with a positive sum; responses made of fallback
\* items are left aside.)
C17_UnweightedStrategiesExcluded ==
    ( /\ Returned
      /\ ~HasKey(Gathered, "fallback")
      /\ Less(<<0, 0>>, SumWeights(FusedWeights)) ) =>
        \A i \in 1..Len(response.recommendations) :
            \E approach \in {"als", "content", "pop"} :
                /\ Weighted(approach)
                /\ Proposes(GetOr(Gathered, approach, <<>>),
                            response.recommendations[i].item_id)

\* a strategy answer that is a soft failure: an exception or an empty list
SoftFailure(call) == call.raises \/ call.recs = <<>>

\* the call made for approach during the served request failed softly
StrategyFailed(approach) ==
    /\ HasKey(FusedWeights, approach)
    /\ IF approach = "als"
       THEN request.als_model.is_fitted /\ SoftFailure(request.als_model.recommend)
       ELSE /\ request.baseline_model.is_fitted
            /\ IF approach = "pop" \/ request.user_courses = "none"
               THEN SoftFailure(request.baseline_model.recommend)
               ELSE \/ request.user_courses = "raises"
                    \/ SoftFailure(request.baseline_model.get_similar_items)

\* the tags a strategy gives to the items it explains
TagsOf(approach) ==
    IF approach = "als" THEN {"similar_users_enrolled"}
    ELSE IF approach = "content" THEN {"similar_course_content", "skill_match"}
    ELSE {"popular"}

\* the lists of candidates that were returned (the fallback list, made when
\* no strategy returned any, among them)
Remaining == SelectSeq(Gathered, LAMBDA entry : entry[2] # <<>>)

\* the fusion of the candidates that were returned
FusionOfRemaining ==
    add_explanations(
        get_top_recommendations(combine_recommendations(Remaining, FusedWeights),
                                request.N),
        Remaining, FusedWeights, request.courses_df)

\* C18: when a strategy call of hybrid_recommend raises or returns an empty
\* list, hybrid_recommend does not raise, no returned item carries a tag of
\* the failed strategy, and the result is the fusion of the candidates the
\* other strategies returned.
C18_SoftFailureNeverSurfaces ==
    \A approach \in {"als", "content", "pop"} :
        (response.served /\ StrategyFailed(approach)) =>
            /\ ~response.raised
            /\ \A i \in 1..Len(response.recommendations) :
                  \A j \in 1..Len(response.recommendations[i].all_explanations) :
                      response.recommendations[i].all_explanations[j]
                          \notin TagsOf(approach)
            /\ response.recommendations = FusionOfRemaining

\* C18 witness: the ALS call raised, the popularity call returned candidates,
\* and the call returned popularity's items.
C18_Witness ==
    /\ Returned
    /\ StrategyFailed("als") /\ request.als_model.recommend.raises
    /\ ~StrategyFailed("pop") /\ HasKey(Gathered, "pop")
    /\ response.recommendations # <<>>
    /\ ItemIds(response.recommendations)
           \subseteq ItemIds(GetOr(Gathered, "pop", <<>>))

\* no strategy returned a candidate during the served request
NothingReturned ==
    \A approach \in {"als", "content", "pop"} :
        GetOr(Gathered, approach, <<>>) = <<>>

\* the ids of the first N fallback items
FallbackOrder(N) ==
    [i \in 1..(IF N > 0 THEN N ELSE 0) |-> FallbackCourses[i]]

\* C19 as stated: the fallback source is invoked whenever the fused output
\* has fewer items than the requested count N, and tops the result up, so a
\* returned list has N items.
C19_FallbackTopsUpToN ==
    Returned => Len(response.recommendations) >= request.N

\* C19 amended: the fallback source is invoked exactly when no strategy
\* returned a non-empty list; the result is then the N fallback items.  When
\* some strategy returned candidates, no fallback item is returned and the
\* fused list is not topped up: every item was proposed by a strategy.
C19_FallbackOnlyWhenNothingReturned ==
    Returned =>
        /\ HasKey(Gathered, "fallback") <=> NothingReturned
        /\ NothingReturned => ReturnedOrder = FallbackOrder(request.N)
        /\ ~NothingReturned =>
              \A i \in 1..Len(response.recommendations) :
                  \E approach \in {"als", "content", "pop"} :
                      Proposes(GetOr(Gathered, approach, <<>>),
                               response.recommendations[i].item_id)

\* C19 witness: the strategies were called and all of them failed, and the
\* two items asked for are the first two fallback items.
C19_Witness ==
    /\ Returned
    /\ request.N = 2
    /\ StrategyFailed("als") /\ StrategyFailed("content") /\ StrategyFailed("pop")
    /\ ReturnedOrder = <<"fallback_course_001", "fallback_course_002">>

----------------------------------------------------------------------------
(* get_interest_based_recommendations (api/main.py): the cascade of the
   content, popularity and exploration tiers and the generic fallback.  The
   recommenders and the data frames are collaborators; a request holds the
   arguments of the call and what the collaborators answer during it.
   Scores are held as the response rounds them, in units of 1e-4. *)

MinRecommendations == 4     \* max(4, request.n_recommendations)
ContentFloor == 8           \* max(8, n_recs * 0.8)
ContentShareTenths == 8     \* n_recs * 0.8
MinPerDifficulty == 2       \* max(2, n_recs // 4)
DifficultyQuota == 4        \* n_recs // 4
GenericThreshold == 6       \* if len(all_recommendations) < 6
ScoreScale == 10000         \* round(rec["score"], 4): scores in units of 1e-4
InteractionCount == 3       \* rows of interactions_df per course

Larger(a, b) == IF a > b THEN a ELSE b

Smaller(a, b) == IF a < b THEN a ELSE b

\* round(num / den, 4) in units of 1e-4, half way going to the even value
RoundedScore(num, den) ==
    LET q == (ScoreScale * num) \div den
        r == (ScoreScale * num) % den
    IN  IF 2 * r > den \/ (2 * r = den /\ q % 2 = 1) THEN q + 1 ELSE q

\* the rows of courses_df: the difficulty lines 368-374 derive from the
\* skill_tags of the row, whether "data" occurs in its skill_tags or title,
\* and whether its skill_tags hold one of the words of line 499
CourseRows ==
    << [course_id |-> "c1", difficulty |-> "beginner",
        about_data |-> FALSE, foundational |-> TRUE],
       [course_id |-> "c2", difficulty |-> "beginner",
        about_data |-> TRUE, foundational |-> FALSE],
       [course_id |-> "c3", difficulty |-> "beginner",
        about_data |-> FALSE, foundational |-> FALSE],
       [course_id |-> "c4", difficulty |-> "intermediate",
        about_data |-> FALSE, foundational |-> FALSE],
       [course_id |-> "c5", difficulty |-> "intermediate",
        about_data |-> TRUE, foundational |-> FALSE],
       [course_id |-> "c6", difficulty |-> "advanced",
        about_data |-> FALSE, foundational |-> FALSE],
       [course_id |-> "c7", difficulty |-> "advanced",
        about_data |-> FALSE, foundational |-> FALSE],
       [course_id |-> "c8", difficulty |-> "intermediate",
        about_data |-> TRUE, foundational |-> FALSE],
       [course_id |-> "c9", difficulty |-> "advanced",
        about_data |-> FALSE, foundational |-> FALSE],
       [course_id |-> "c10", difficulty |-> "beginner",
        about_data |-> TRUE, foundational |-> TRUE] >>

CourseIds == [i \in 1..Len(CourseRows) |-> CourseRows[i].course_id]

\* not course_row.empty
HasRow(course_id) == \E i \in 1..Len(CourseRows) : CourseRows[i].course_id = course_id

RowOf(course_id) ==
    CourseRows[CHOOSE i \in 1..Len(CourseRows) : CourseRows[i].course_id = course_id]

DifficultyOf(course_id) == RowOf(course_id).difficulty

\* seen_courses: the ids the tiers added so far
SeenCourses(all_recommendations) ==
    {all_recommendations[i].item_id : i \in 1..Len(all_recommendations)}

\* difficulty_counts.get(difficulty, 0)
DifficultyCount(all_recommendations, difficulty) ==
    Cardinality({i \in 1..Len(all_recommendations) :
                    DifficultyOf(all_recommendations[i].item_id) = difficulty})

\* request.interests of the requests served
Interests == "python"

\* lines 380-400: the rec of the course at index i (from 1) of n content ids
ContentRec(course_id, i, n, req) ==
    LET difficulty == DifficultyOf(course_id)
        boosted == req.experience_level # "" /\ difficulty = req.experience_level
        base_score ==
            IF boosted
            THEN Smaller(ScoreScale, RoundedScore(6 * (n - (i - 1)), 5 * n))
            ELSE RoundedScore(n - (i - 1), n)
    IN  [item_id |-> course_id,
         score |-> base_score,
         explanations |->
             << "Matches your interests: " \o Interests,
                IF difficulty = "beginner"
                THEN "Perfect for building foundational knowledge"
                ELSE IF difficulty = "advanced"
                THEN "Advanced content to challenge your skills"
                ELSE "Intermediate level to expand your expertise" >>]

\* Strategy 1, lines 360-402: the loop over content_course_ids from index i;
\* the row at index raises_at makes the loop raise (what was added stays)
RECURSIVE ContentTier(_, _, _, _, _)
ContentTier(req, i, raises_at, n_recs, all_recommendations) ==
    IF i > Len(req.content_course_ids) \/ i = raises_at THEN all_recommendations
    ELSE LET course_id == req.content_course_ids[i]
             taken ==
                 /\ course_id \notin SeenCourses(all_recommendations)
                 /\ 10 * Len(all_recommendations)
                        < Larger(10 * ContentFloor, ContentShareTenths * n_recs)
                 /\ HasRow(course_id)
                 /\ DifficultyCount(all_recommendations, DifficultyOf(course_id))
                        < Larger(MinPerDifficulty, n_recs \div DifficultyQuota)
         IN  ContentTier(req, i + 1, raises_at, n_recs,
                 IF taken
                 THEN Append(all_recommendations,
                             ContentRec(course_id, i, Len(req.content_course_ids),
                                        req))
                 ELSE all_recommendations)

\* lines 427-452: the rec of the course at index i (from 1) of n popular ids
PopularityRec(course_id, i, n, req) ==
    [item_id |-> course_id,
     score |-> Larger(4 * (ScoreScale \div 10),
                      RoundedScore(4 * n - 5 * (i - 1), 5 * n)),
     explanations |->
         (IF i - 1 < 5
          THEN << "Top-rated course in your field",
                  "Chosen by " \o ToString(InteractionCount) \o "+ students" >>
          ELSE IF i - 1 < 15
          THEN << "Highly popular course", "Great student reviews and engagement" >>
          ELSE << "Well-regarded course", "Trusted by the learning community" >>)
         \o (IF req.domain # "" THEN << "Relevant to " \o req.domain \o " field" >>
             ELSE <<>>)]

\* Strategy 2, lines 425-454: the loop over pop_course_ids from index i
RECURSIVE PopularityTier(_, _, _, _)
PopularityTier(req, i, n_recs, all_recommendations) ==
    IF i > Len(req.pop_course_ids) THEN all_recommendations
    ELSE PopularityTier(req, i + 1, n_recs,
             IF /\ req.pop_course_ids[i] \notin SeenCourses(all_recommendations)
                /\ Len(all_recommendations) < n_recs
             THEN Append(all_recommendations,
                         PopularityRec(req.pop_course_ids[i], i,
                                       Len(req.pop_course_ids), req))
             ELSE all_recommendations)

\* lines 491-500: relevance_score of a row, in hundredths
RelevanceScore(course_id, req) ==
    30 + (IF req.domain = "data" /\ RowOf(course_id).about_data THEN 20 ELSE 0)
       + (IF RowOf(course_id).foundational THEN 15 ELSE 0)

\* scored_courses.sort(key=lambda x: x[1], reverse=True): stable
RECURSIVE SortedByRelevance(_, _)
SortedByRelevance(course_ids, req) ==
    IF course_ids = <<>> THEN <<>>
    ELSE LET last == course_ids[Len(course_ids)]
             front == SortedByRelevance(SubSeq(course_ids, 1, Len(course_ids) - 1),
                                        req)
             ahead == {k \in 1..Len(front) :
                          RelevanceScore(front[k], req) >= RelevanceScore(last, req)}
         IN  SubSeq(front, 1, Cardinality(ahead)) \o <<last>>
                 \o SubSeq(front, Cardinality(ahead) + 1, Len(front))

\* lines 509-521
ExplorationRec(course_id, req) ==
    LET relevance_score == RelevanceScore(course_id, req)
    IN  [item_id |-> course_id,
         score |-> Smaller(7 * (ScoreScale \div 10),
                           (30 + relevance_score) * (ScoreScale \div 100)),
         explanations |->
             IF relevance_score > 50
             THEN << "Highly relevant to your goals",
                     "Builds on your current interests" >>
             ELSE IF relevance_score > 40
             THEN << "Related to your field", "Could complement your skills" >>
             ELSE << "Expand your skillset",
                     "Discover new learning opportunities" >>]

\* Strategy 3, lines 469-523.  available_courses.sample(k) draws k rows at
\* random: the first k of the courses not seen yet, taken in sample_order
ExplorationTier(req, sample_order, n_recs, all_recommendations) ==
    LET available_courses ==
            SelectSeq(sample_order,
                      LAMBDA c : c \notin SeenCourses(all_recommendations))
        sample_size == Smaller(n_recs - Len(all_recommendations),
                               Len(available_courses))
        sample_courses ==
            SubSeq(available_courses, 1,
                   Smaller(sample_size * 3, Len(available_courses)))
        scored_courses == SortedByRelevance(sample_courses, req)
    IN  all_recommendations
            \o [i \in 1..Larger(sample_size, 0) |->
                   ExplorationRec(scored_courses[i], req)]

\* generic_courses, lines 532-553
generic_courses ==
    << [item_id |-> "generic_1", score |-> 7 * (ScoreScale \div 10),
        explanations |-> << "Foundation course for beginners",
                            "Essential skills development" >>],
       [item_id |-> "generic_2", score |-> 6 * (ScoreScale \div 10),
        explanations |-> << "Popular starting point",
                            "Industry standard course" >>],
       [item_id |-> "generic_3", score |-> 5 * (ScoreScale \div 10),
        explanations |-> << "Recommended for your level",
                            "Good introduction to the field" >>],
       [item_id |-> "generic_4", score |-> 4 * (ScoreScale \div 10),
        explanations |-> << "Widely taken course",
                            "Builds fundamental knowledge" >>] >>

GenericCourses == [i \in 1..Len(generic_courses) |-> generic_courses[i].item_id]

\* [mutant] the generic fallback is left out
generic_fallback_skipped(all_recommendations) == all_recommendations

\* Strategy 4, lines 530-557
generic_fallback(all_recommendations) ==
    IF Len(all_recommendations) < GenericThreshold
    THEN all_recommendations
             \o [i \in 1..Larger(MinRecommendations - Len(all_recommendations), 0) |->
                    generic_courses[i]]
    ELSE all_recommendations

\* [mutant] the later tiers are entered whatever the earlier ones gave
below_target_always(all_recommendations, n_recs) == TRUE

\* len(all_recommendations) < n_recs, lines 410 and 462
below_target(all_recommendations, n_recs) == Len(all_recommendations) < n_recs

\* lines 569-575: RecommendationResponse of each rec
ResponseOf(final_recommendations) ==
    [i \in 1..Len(final_recommendations) |->
        [course_id |-> final_recommendations[i].item_id,
         score |-> final_recommendations[i].score,
         explanation |-> final_recommendations[i].explanations]]

\* len(all_recommendations) on reaching lines 410, 462 and 530, when no tier
\* was reached
NoSizes == [popularity |-> 0, exploration |-> 0, generic |-> 0]

\* the outcome of get_interest_based_recommendations(request) when the
\* sampling of line 482 draws in sample_order: the HTTP status, for 200 the
\* list returned, the recommender and sampling calls made, in order, and
\* len(all_recommendations) on reaching each later tier
get_interest_based_recommendations(req, sample_order) ==
    IF ~req.models_loaded
    THEN [status |-> 503, recommendations |-> <<>>, calls |-> <<>>,
          sizes |-> NoSizes]
    ELSE IF ~req.baseline_loaded
    THEN [status |-> 500, recommendations |-> <<>>, calls |-> <<>>,
          sizes |-> NoSizes]
    ELSE
    LET n_recs == Larger(MinRecommendations, req.n_recommendations)
        content_called == req.courses_loaded
        after_content ==
            IF ~content_called \/ req.content_raises_at = 0 THEN <<>>
            ELSE ContentTier(req, 1, req.content_raises_at, n_recs, <<>>)
        popularity_called ==
            below_target(after_content, n_recs) /\ req.interactions_loaded
        after_popularity ==
            IF popularity_called
            THEN PopularityTier(req, 1, n_recs, after_content)
            ELSE after_content
        exploration_called ==
            below_target(after_popularity, n_recs) /\ req.courses_loaded
        after_exploration ==
            IF exploration_called /\ ~req.exploration_raises
            THEN ExplorationTier(req, sample_order, n_recs, after_popularity)
            ELSE after_popularity
        all_recommendations == generic_fallback(after_exploration)
    IN  [status |-> 200,
         recommendations |-> ResponseOf(Slice(all_recommendations, n_recs)),
         calls |-> (IF content_called THEN <<"content">> ELSE <<>>)
                   \o (IF popularity_called THEN <<"popularity">> ELSE <<>>)
                   \o (IF exploration_called THEN <<"exploration">> ELSE <<>>),
         sizes |-> [popularity |-> Len(after_content),
                    exploration |-> Len(after_popularity),
                    generic |-> Len(after_exploration)]]

RequestedCounts == {4, 5, 8}

Reversed(s) == [i \in 1..Len(s) |-> s[Len(s) + 1 - i]]

ContentAnswers ==
    { <<>>,
      <<"c1", "c2", "c3", "c4", "c5", "c6", "c7">>,
      <<"c1", "ghost", "c1", "c4">> }

\* 0: content_based_recommender raises; 3: the third row raises in the loop;
\* NoRaise: nothing raises
NoRaise == 99

PopularityAnswers ==
    { <<>>,
      <<"c1", "c8", "c9">>,
      <<"c8", "c9", "c10", "c1", "c2", "c3">> }

\* the orders available_courses.sample can draw in
SampleOrders == {CourseIds, Reversed(CourseIds)}

InterestRequests ==
    [ models_loaded : BOOLEAN, baseline_loaded : BOOLEAN,
      courses_loaded : BOOLEAN, interactions_loaded : BOOLEAN,
      n_recommendations : RequestedCounts,
      domain : {"", "data"},
      experience_level : {"", "beginner"},
      content_course_ids : ContentAnswers,
      content_raises_at : {0, 3, NoRaise},
      pop_course_ids : PopularityAnswers,
      exploration_raises : BOOLEAN ]

\* no request served yet
NoResponse ==
    [served |-> FALSE, status |-> 0, recommendations |-> <<>>, calls |-> <<>>,
     sizes |-> NoSizes]

GetInterestBasedRecommendations ==
    /\ response = NoResponse
    /\ \E sample_order \in SampleOrders :
        LET out == get_interest_based_recommendations(request, sample_order)
        IN  response' = [served |-> TRUE, status |-> out.status,
                         recommendations |-> out.recommendations,
                         calls |-> out.calls, sizes |-> out.sizes]
    /\ UNCHANGED <<gamification, redis_client, experiments, user_assignments,
                   ab_test_assignments, ab_test_conversions, observed, threads,
                   request>>

CascadeInit ==
    /\ NoGamification
    /\ request \in InterestRequests
    /\ response = NoResponse
    /\ redis_client = FALSE
    /\ experiments = <<>>
    /\ user_assignments = <<>>
    /\ ab_test_assignments = NoAssignments
    /\ ab_test_conversions = NoConversions
    /\ observed = NoObservation
    /\ threads = <<>>

CascadeNext == GetInterestBasedRecommendations

CascadeSpec == CascadeInit /\ [][CascadeNext]_vars

\* C20: every successful response of the interest-based recommendation
\* operation has at least 4 and at most max(4, n_recommendations) items,
\* whatever the content, popularity and exploration tiers return and also
\* when each of them raises.
C20_CascadeGuaranteesMinimumSize ==
    (response.served /\ response.status = 200) =>
        /\ Len(response.recommendations) >= 4
        /\ Len(response.recommendations)
               <= Larger(4, request.n_recommendations)

\* C20 witness: the three tiers raised (no courses, no interactions) and the
\* response is the four generic items.
C20_Witness ==
    /\ response.served /\ response.status = 200
    /\ ~request.courses_loaded /\ ~request.interactions_loaded
    /\ [i \in 1..Len(response.recommendations) |->
           response.recommendations[i].course_id] = GenericCourses

\* the call succeeded and no catalog tier contributed an item to the result
NoCatalogItem ==
    /\ response.served /\ response.status = 200
    /\ \A i \in 1..Len(response.recommendations) :
          ~HasRow(response.recommendations[i].course_id)

\* C21: when the strategies contribute nothing and 5 items are asked for, the
\* result is exactly the four filler items with the scores 0.7, 0.6, 0.5, 0.4
\* in that order, and each of them carries an explicit synthetic tag among
\* its explanations.
C21_FillerSetIsTaggedSynthetic ==
    (NoCatalogItem /\ request.n_recommendations = 5) =>
        /\ [i \in 1..Len(response.recommendations) |->
               response.recommendations[i].score] = <<7000, 6000, 5000, 4000>>
        /\ \A i \in 1..Len(response.recommendations) :
              \E j \in 1..Len(response.recommendations[i].explanation) :
                  response.recommendations[i].explanation[j] = "synthetic"

\* tier was called during the served request
Called(tier) == \E i \in 1..Len(response.calls) : response.calls[i] = tier

\* the response holds a generic item
FillerAdded ==
    \E i \in 1..Len(response.recommendations) :
        response.recommendations[i].course_id
            \in {GenericCourses[k] : k \in 1..Len(GenericCourses)}

\* the calls were made in the order content, popularity, exploration
InTierOrder ==
    \A i, j \in 1..Len(response.calls) :
        /\ (response.calls[i] = "popularity" /\ response.calls[j] = "content") => j < i
        /\ (response.calls[i] = "exploration" /\ response.calls[j] # "exploration")
               => j < i

\* n_recs = max(4, request.n_recommendations)
Target == Larger(MinRecommendations, request.n_recommendations)

\* C22 as stated: the tiers run in order, a later tier is called only when
\* the earlier tiers left fewer items than the minimum of 4, and filler items
\* are added only when the catalog tiers left fewer than 4 items.
C22_TiersRunOnlyBelowMinimum ==
    (response.served /\ response.status = 200) =>
        /\ InTierOrder
        /\ Called("popularity") => response.sizes.popularity < MinRecommendations
        /\ Called("exploration") => response.sizes.exploration < MinRecommendations
        /\ FillerAdded => response.sizes.generic < MinRecommendations

\* C22 amended: the tiers run in order, the popularity and exploration tiers
\* are called only when the earlier tiers left fewer items than the target
\* max(4, n_recommendations), and filler items are added only when the
\* catalog tiers left fewer than 4 items.
C22_TiersRunOnlyBelowTarget ==
    (response.served /\ response.status = 200) =>
        /\ InTierOrder
        /\ Called("popularity") => response.sizes.popularity < Target
        /\ Called("exploration") => response.sizes.exploration < Target
        /\ FillerAdded => response.sizes.generic < MinRecommendations

\* C22 witness: 8 items were asked for, the content tier gave 6, and the
\* popularity tier was called and filled the list up, so that neither the
\* exploration tier nor the filler was used.
C22_Witness ==
    /\ response.served /\ response.status = 200
    /\ request.n_recommendations = 8
    /\ response.sizes.popularity = 6
    /\ response.calls = <<"content", "popularity">>
    /\ response.sizes.exploration = 8
    /\ ~FillerAdded

\* C23: a second run of the cascade on the same request, the same data and
\* the same recommender answers returns what the first run returned: the
\* same items, in the same order, with the same scores.
C23_CascadeIsReproducible ==
    (response.served /\ response.status = 200) =>
        \A sample_order \in SampleOrders :
            get_interest_based_recommendations(request, sample_order).recommendations
                = response.recommendations

\* C24: for every recommendation hybrid_recommend returns, explanations is
\* the first two elements of all_explanations in the same order (all of them
\* when there are fewer than two), so it has at most two elements, and
\* all_explanations is never empty.
C24_ExplanationsAreTopTwo ==
    Returned =>
        \A i \in 1..Len(response.recommendations) :
            LET rec == response.recommendations[i]
            IN  /\ rec.all_explanations # <<>>
                /\ Len(rec.explanations) <= 2
                /\ Len(rec.explanations) <= Len(rec.all_explanations)
                /\ rec.explanations
                       = SubSeq(rec.all_explanations, 1,
                                IF Len(rec.all_explanations) < 2
                                THEN Len(rec.all_explanations) ELSE 2)

\* C24 witness: an item with three tags was returned with the first two of
\* them as its explanations.
C24_Witness ==
    /\ Returned
    /\ \E i \in 1..Len(response.recommendations) :
          /\ Len(response.recommendations[i].all_explanations) = 3
          /\ Len(response.recommendations[i].explanations) = 2

\* the fixed priority of the strategies: collaborative, content, popularity
StrategyPriority == <<"als", "content", "pop">>

\* the candidates the strategy of priority k returned
CandidatesOf(k) == GetOr(Gathered, StrategyPriority[k], <<>>)

\* the priority of the first strategy that proposed the item
FirstProposer(item_id) ==
    CHOOSE k \in 1..Len(StrategyPriority) :
        /\ Proposes(CandidatesOf(k), item_id)
        /\ \A j \in 1..(k - 1) : ~Proposes(CandidatesOf(j), item_id)

\* the position of the item in the candidate list of its first proposer
FirstPosition(item_id) ==
    CHOOSE p \in 1..Len(CandidatesOf(FirstProposer(item_id))) :
        /\ CandidatesOf(FirstProposer(item_id))[p].item_id = item_id
        /\ \A q \in 1..(p - 1) :
              CandidatesOf(FirstProposer(item_id))[q].item_id # item_id

\* the served request with the keys of its weights mapping in reverse order
WithKeysReversed ==
    [request EXCEPT !.weights.dict =
        [i \in 1..Len(@) |-> @[Len(@) + 1 - i]]]

\* C25: among returned items of equal combined score, the one whose first
\* proposing strategy has the higher priority (collaborative, content,
\* popularity) comes first, and among items of the same first strategy the
\* one earlier in that strategy's candidate list; the same call with the keys
\* of the weights mapping in another order returns the same list.
C25_TiesFollowStrategyPriority ==
    Returned =>
        /\ ~HasKey(Gathered, "fallback") =>
              \A i, j \in 1..Len(response.recommendations) :
                  ( /\ i < j
                    /\ response.recommendations[i].score
                           = response.recommendations[j].score )
                  => LET a == response.recommendations[i].item_id
                         b == response.recommendations[j].item_id
                     IN  \/ FirstProposer(a) < FirstProposer(b)
                         \/ /\ FirstProposer(a) = FirstProposer(b)
                            /\ FirstPosition(a) < FirstPosition(b)
        /\ fuse(WithKeysReversed, response.variant).recommendations
               = response.recommendations

\* C25 witness: two items of equal score were returned whose first proposers
\* are different strategies, for a weights mapping with several keys.
C25_Witness ==
    /\ Returned
    /\ ~HasKey(Gathered, "fallback")
    /\ Len(request.weights.dict) > 1 /\ ~request.weights.is_none
    /\ \E i, j \in 1..Len(response.recommendations) :
          /\ i < j
          /\ response.recommendations[i].score = response.recommendations[j].score
          /\ FirstProposer(response.recommendations[i].item_id)
                 < FirstProposer(response.recommendations[j].item_id)

\* the item is in the candidate list of the strategy of priority k, and the
\* strategy has a weight > 0
TagApplies(k, item_id) ==
    Weighted(StrategyPriority[k]) /\ Proposes(CandidatesOf(k), item_id)

\* the tags of the strategies that apply to the item, in priority order
StrategyTags(item_id) ==
    (IF TagApplies(1, item_id) THEN <<"similar_users_enrolled">> ELSE <<>>)
    \o (IF TagApplies(2, item_id)
        THEN IF InCatalog(request.courses_df, item_id)
             THEN <<"skill_match">> ELSE <<"similar_course_content">>
        ELSE <<>>)
    \o (IF TagApplies(3, item_id) THEN <<"popular">> ELSE <<>>)

\* C26: all_explanations of a returned item holds the tag of a strategy
\* exactly when the item is in the strategy's candidate list and the strategy
\* has a weight > 0, the tags being in the order collaborative, content,
\* popularity; recommended_for_you or course_match is its only tag when no
\* strategy tag applies and is absent otherwise; every item of a result made
\* of fallback items carries recommended_for_you.
C26_TagsFollowCandidateLists ==
    Returned =>
        \A i \in 1..Len(response.recommendations) :
            LET rec == response.recommendations[i]
            IN  /\ StrategyTags(rec.item_id) # <<>>
                      => rec.all_explanations = StrategyTags(rec.item_id)
                /\ StrategyTags(rec.item_id) = <<>>
                      => rec.all_explanations
                             \in {<<"recommended_for_you">>, <<"course_match">>}
                /\ HasKey(Gathered, "fallback")
                      => rec.all_explanations = <<"recommended_for_you">>

\* C26 witness: a returned item proposed by the collaborative and the
\* popularity strategy, and not by the content strategy although it has a
\* weight > 0, carries the two tags in that order.
C26_Witness ==
    /\ Returned
    /\ Weighted("content") /\ CandidatesOf(2) # <<>>
    /\ \E i \in 1..Len(response.recommendations) :
          /\ response.recommendations[i].all_explanations
                 = <<"similar_users_enrolled", "popular">>
          /\ ~Proposes(CandidatesOf(2), response.recommendations[i].item_id)

----------------------------------------------------------------------------
(* The weights of a variant *)

\* the weight set the claim lets the served call start from: the treatment
\* weights for a user in treatment, else the caller's weights if given, else
\* the instance defaults
ChosenWeights ==
    IF request.enable_ab_testing /\ response.variant = "treatment"
    THEN treatment_weights
    ELSE IF request.weights.is_none THEN default_weights
    ELSE request.weights.dict

\* the returned list is the fusion under the chosen weights, normalized as
\* lines 155-158 normalize
FusedWithChosenWeights ==
    LET weights == normalize_weights(ChosenWeights)
        recommendations == gather_recommendations(request, weights)
    IN  Returned =>
            response.recommendations
                = add_explanations(
                      get_top_recommendations(
                          combine_recommendations(recommendations, weights),
                          request.N),
                      recommendations, weights, request.courses_df)

\* C27: the weights hybrid_recommend fuses with are chosen by the user's
\* variant in new_algorithm_v1 (treatment weights for a user in treatment,
\* even against explicit caller weights; else the caller's weights if given,
\* else the defaults), and in both cases they are normalized before use:
\* the weights fused with sum to 1.0 within 1e-9.
C27_VariantChoosesNormalizedWeights ==
    Returned =>
        /\ FusedWithChosenWeights
        /\ ~Less(Plus(SumWeights(FusedWeights), SumTolerance), OneExactly)
        /\ ~Less(Plus(OneExactly, SumTolerance), SumWeights(FusedWeights))

----------------------------------------------------------------------------
(* The assignment counter under concurrent calls *)

\* the call of thread t (get_user_variant or record_conversion) is over
Completed(t) ==
    \/ At(t, "recorded")
    \/ threads[t].conversion_type = None /\ Finished(t)

\* C28: under any interleaving of concurrent get_user_variant and
\* record_conversion calls, once all calls have completed, the assignment
\* counter of every experiment e and variant v equals the number of users
\* whose cached assignment for e is v.
C28_CounterMatchesCacheAfterConcurrentCalls ==
    (\A t \in ThreadIds : At(t, "idle") \/ Completed(t)) =>
        \A e \in ExperimentNames, v \in Variants :
            ab_test_assignments[<<e, v>>] = Cardinality(AssignedUsers(e, v))

----------------------------------------------------------------------------
(* Gamification: UserStats (gamification/models.py), BADGES
   (gamification/badge_definitions.py), GamificationStorage
   (gamification/storage.py) and GamificationEngine.process_user_activity
   (gamification/engine.py), for one user.

   A date is a day number; day 0 is a Friday.  An optional date is a record
   [is_none, day]. *)

MaxActivities == 3      \* activities processed per run
LastDay == 3            \* the last day the clock reaches

GamifiedUser == "user_33"

NoDate == [is_none |-> TRUE, day |-> 0]

Date(day) == [is_none |-> FALSE, day |-> day]

\* date.weekday(): Monday is 0
weekday(day) == (day + 4) % 7

\* a requirement of a badge: requirements[kind] = value, and for the kind
\* domain_courses requirements[kind] = {domain: value}
Requirement(kind, value) == [kind |-> kind, value |-> value, domain |-> None]

DomainCourses(domain, value) ==
    [kind |-> "domain_courses", value |-> value, domain |-> domain]

Badge(id, requirements, points) ==
    [id |-> id, requirements |-> requirements, points |-> points]

\* BADGES, in the order of the dict
BADGES ==
    << Badge("first_streak", <<Requirement("current_streak", 1)>>, 50),
       Badge("week_warrior", <<Requirement("current_streak", 7)>>, 200),
       Badge("month_master", <<Requirement("current_streak", 30)>>, 500),
       Badge("streak_legend", <<Requirement("current_streak", 100)>>, 1000),
       Badge("first_course", <<Requirement("courses_completed", 1)>>, 100),
       Badge("course_collector", <<Requirement("courses_completed", 10)>>, 300),
       Badge("knowledge_seeker", <<Requirement("courses_completed", 25)>>, 750),
       Badge("master_learner", <<Requirement("courses_completed", 50)>>, 1500),
       Badge("curious_mind", <<Requirement("domains_explored_count", 3)>>, 150),
       Badge("polymath", <<Requirement("domains_explored_count", 5)>>, 400),
       Badge("weekend_learner", <<Requirement("weekend_days", 10)>>, 250),
       Badge("early_bird", <<Requirement("early_sessions", 5)>>, 300),
       Badge("xp_rookie", <<Requirement("total_xp", 1000)>>, 100),
       Badge("xp_veteran", <<Requirement("total_xp", 5000)>>, 500),
       Badge("xp_champion", <<Requirement("total_xp", 10000)>>, 1000),
       Badge("feedback_giver", <<Requirement("courses_liked", 20)>>, 150),
       Badge("tech_specialist", <<DomainCourses("technology", 10)>>, 400),
       Badge("business_guru", <<DomainCourses("business", 10)>>, 400),
       Badge("creative_soul", <<DomainCourses("arts", 10)>>, 400) >>

\* BADGES.get(badge_id), for a badge_id of BADGES
get_badge(badge_id) ==
    BADGES[CHOOSE i \in 1..Len(BADGES) : BADGES[i].id = badge_id]

\* UserStats(user_id)
UserStats(user_id) ==
    [user_id |-> user_id,
     total_xp |-> 0,
     level |-> 1,
     current_streak |-> 0,
     longest_streak |-> 0,
     last_activity_date |-> NoDate,
     earned_badges |-> <<>>,
     courses_completed |-> 0,
     courses_liked |-> 0,
     domains_explored |-> {},
     activity_days |-> {},
     total_study_minutes |-> 0]

\* int(math.sqrt(total_xp / 100)) + 1
calculate_level(total_xp) ==
    CHOOSE level \in 1..(total_xp \div 100 + 1) :
        /\ (level - 1) * (level - 1) * 100 <= total_xp
        /\ total_xp < level * level * 100

\* UserStats.add_xp: the stats it leaves and what it returns
add_xp(stats, points) ==
    LET total_xp == stats.total_xp + points
        level == calculate_level(total_xp)
    IN  [stats |-> [stats EXCEPT !.total_xp = total_xp, !.level = level],
         ret |-> level > stats.level]

\* UserStats.update_streak: the stats it leaves and what it returns
update_streak(stats, activity_date) ==
    IF stats.last_activity_date.is_none
    THEN [stats |-> [stats EXCEPT !.current_streak = 1,
                                  !.last_activity_date = Date(activity_date),
                                  !.activity_days = @ \cup {activity_date}],
          ret |-> TRUE]
    ELSE LET days_diff == activity_date - stats.last_activity_date.day
         IN  IF days_diff = 1
             THEN [stats |->
                      [stats EXCEPT
                          !.current_streak = @ + 1,
                          !.longest_streak =
                              Larger(stats.longest_streak, stats.current_streak + 1),
                          !.last_activity_date = Date(activity_date),
                          !.activity_days = @ \cup {activity_date}],
                   ret |-> TRUE]
             ELSE IF days_diff = 0
             THEN [stats |-> [stats EXCEPT !.activity_days = @ \cup {activity_date}],
                   ret |-> TRUE]
             ELSE [stats |-> [stats EXCEPT
                                 !.current_streak = 1,
                                 !.last_activity_date = Date(activity_date),
                                 !.activity_days = @ \cup {activity_date}],
                   ret |-> FALSE]

\* UserStats.has_badge
has_badge(stats, badge_id) ==
    \E i \in 1..Len(stats.earned_badges) : stats.earned_badges[i] = badge_id

\* UserStats.to_dict: the JSON document of the stats (dates in ISO format
\* and the two sets as lists, which from_dict turns back into sets)
to_dict(stats) ==
    [user_id |-> stats.user_id,
     total_xp |-> stats.total_xp,
     level |-> stats.level,
     current_streak |-> stats.current_streak,
     longest_streak |-> stats.longest_streak,
     last_activity_date |-> stats.last_activity_date,
     earned_badges |-> stats.earned_badges,
     courses_completed |-> stats.courses_completed,
     courses_liked |-> stats.courses_liked,
     domains_explored |-> stats.domains_explored,
     activity_days |-> stats.activity_days,
     total_study_minutes |-> stats.total_study_minutes]

\* UserStats.from_dict
from_dict(data) ==
    [UserStats(data.user_id) EXCEPT
        !.total_xp = data.total_xp,
        !.level = data.level,
        !.current_streak = data.current_streak,
        !.longest_streak = data.longest_streak,
        !.last_activity_date = IF data.last_activity_date.is_none THEN NoDate
                               ELSE data.last_activity_date,
        !.earned_badges = data.earned_badges,
        !.courses_completed = data.courses_completed,
        !.courses_liked = data.courses_liked,
        !.domains_explored = data.domains_explored,
        !.activity_days = IF data.activity_days = {} THEN {}
                          ELSE data.activity_days,
        !.total_study_minutes = data.total_study_minutes]

\* the user file does not exist
NoFile == [exists |-> FALSE, data |-> to_dict(UserStats(GamifiedUser))]

\* GamificationStorage.get_user_stats
get_user_stats(user_id) ==
    IF user_file.exists THEN from_dict(user_file.data) ELSE UserStats(user_id)

\* GamificationStorage.save_user_stats: the user file it leaves
save_user_stats(stats) == [exists |-> TRUE, data |-> to_dict(stats)]

\* GamificationEngine._meets_requirements: the branch of domain_courses only
\* passes, and a key with no branch (early_sessions) is stepped over
meets_requirements(stats, requirements) ==
    \A i \in 1..Len(requirements) :
        LET req_key == requirements[i].kind
            req_value == requirements[i].value
        IN  CASE req_key = "current_streak" -> stats.current_streak >= req_value
              [] req_key = "longest_streak" -> stats.longest_streak >= req_value
              [] req_key = "courses_completed" -> stats.courses_completed >= req_value
              [] req_key = "courses_liked" -> stats.courses_liked >= req_value
              [] req_key = "total_xp" -> stats.total_xp >= req_value
              [] req_key = "domains_explored_count" ->
                     Cardinality(stats.domains_explored) >= req_value
              [] req_key = "domain_courses" -> TRUE
              [] req_key = "weekend_days" ->
                     Cardinality({d \in stats.activity_days : weekday(d) >= 5})
                         >= req_value
              [] OTHER -> TRUE

\* GamificationEngine._check_badge_eligibility: the badge ids, in BADGES order
check_badge_eligibility(stats) ==
    LET eligible(i) == /\ ~has_badge(stats, BADGES[i].id)
                       /\ meets_requirements(stats, BADGES[i].requirements)
    IN  [j \in 1..Cardinality({i \in 1..Len(BADGES) : eligible(i)}) |->
            BADGES[CHOOSE i \in 1..Len(BADGES) :
                      /\ eligible(i)
                      /\ Cardinality({k \in 1..i : eligible(k)}) = j].id]

\* lines 98-104: award_badge, add_xp(badge.points) for every new badge in turn
RECURSIVE AwardBadges(_, _)
AwardBadges(stats, new_badges) ==
    IF new_badges = <<>> THEN stats
    ELSE AwardBadges(
             add_xp([stats EXCEPT !.earned_badges = Append(@, Head(new_badges))],
                    get_badge(Head(new_badges)).points).stats,
             Tail(new_badges))

RECURSIVE SumPoints(_)
SumPoints(badge_ids) ==
    IF badge_ids = <<>> THEN 0
    ELSE get_badge(Head(badge_ids)).points + SumPoints(Tail(badge_ids))

\* the metadata argument: None, or a dict with or without the keys domain
\* and minutes
NoMetadata == [is_none |-> TRUE, has_domain |-> FALSE, domain |-> None,
               has_minutes |-> FALSE, minutes |-> 0]

DomainMetadata(domain) == [NoMetadata EXCEPT !.is_none = FALSE,
                                             !.has_domain = TRUE,
                                             !.domain = domain]

MinutesMetadata(minutes) == [NoMetadata EXCEPT !.is_none = FALSE,
                                               !.has_minutes = TRUE,
                                               !.minutes = minutes]

\* str.lower() of the domains the model passes
lower(domain) == IF domain = "Technology" THEN "technology" ELSE domain

\* GamificationEngine.process_user_activity(user_id, activity_type, metadata)
\* on activity_date = date.today(): the dict it returns and the user file it
\* leaves
process_user_activity(user_id, activity_type, metadata, activity_date) ==
    LET loaded == get_user_stats(user_id)
        streak == update_streak(loaded, activity_date)
        xp_earned ==
            CASE activity_type = "view" -> 10
              [] activity_type = "like" -> 15
              [] activity_type = "enroll" -> 30
              [] activity_type = "complete" -> 100
              [] activity_type = "assessment" -> 50
              [] activity_type = "career_path_selection" -> 25
              [] activity_type = "study_session" ->
                     IF metadata.has_minutes THEN metadata.minutes ELSE 0
              [] OTHER -> 0
        counted ==
            CASE activity_type = "like" ->
                     [streak.stats EXCEPT !.courses_liked = @ + 1]
              [] activity_type = "complete" ->
                     [streak.stats EXCEPT
                         !.courses_completed = @ + 1,
                         !.domains_explored =
                             IF metadata.has_domain
                             THEN @ \cup {lower(metadata.domain)} ELSE @]
              [] activity_type = "study_session" ->
                     [streak.stats EXCEPT !.total_study_minutes = @ + xp_earned]
              [] OTHER -> streak.stats
        gained == add_xp(counted, xp_earned)
        level_up == xp_earned > 0 /\ gained.ret
        with_xp == IF xp_earned > 0
                   THEN IF level_up THEN add_xp(gained.stats, 50).stats
                        ELSE gained.stats
                   ELSE counted
        new_badges == check_badge_eligibility(with_xp)
        stats == AwardBadges(with_xp, new_badges)
    IN  [updates |->
            [xp_gained |-> (IF xp_earned > 0
                            THEN xp_earned + (IF level_up THEN 50 ELSE 0)
                            ELSE 0) + SumPoints(new_badges),
             badges_earned |-> new_badges,
             level_up |-> level_up,
             streak_updated |-> streak.ret],
         user_file |-> save_user_stats(stats)]

\* the activities of the API's events, an activity type the engine does not
\* know, and the metadata they come with
Activities ==
    { [activity_type |-> a, metadata |-> NoMetadata] :
          a \in {"view", "like", "enroll", "complete", "assessment",
                 "career_path_selection", "study_session", "share"} }
        \cup { [activity_type |-> "complete", metadata |-> DomainMetadata(d)] :
                   d \in {"Technology", "business"} }
        \cup { [activity_type |-> "study_session",
                metadata |-> MinutesMetadata(30)] }

NoUpdates == [xp_gained |-> 0, badges_earned |-> <<>>, level_up |-> FALSE,
              streak_updated |-> FALSE]

\* a request of the API has the engine process one activity of the user
ProcessUserActivity(activity) ==
    /\ processed < MaxActivities
    /\ LET out == process_user_activity(GamifiedUser, activity.activity_type,
                                        activity.metadata, today)
       IN  /\ updates' = out.updates
           /\ user_file' = out.user_file
    /\ processed' = processed + 1
    /\ UNCHANGED <<today, redis_client, experiments, user_assignments,
                   ab_test_assignments, ab_test_conversions, observed, threads,
                   request, response>>

\* midnight: date.today() moves on by one day
Midnight ==
    /\ today < LastDay
    /\ today' = today + 1
    /\ UNCHANGED <<user_file, updates, processed, redis_client, experiments,
                   user_assignments, ab_test_assignments, ab_test_conversions,
                   observed, threads, request, response>>

GamifyInit ==
    /\ user_file = NoFile
    /\ today = 0
    /\ updates = NoUpdates
    /\ processed = 0
    /\ redis_client = FALSE
    /\ experiments = <<>>
    /\ user_assignments = <<>>
    /\ ab_test_assignments = NoAssignments
    /\ ab_test_conversions = NoConversions
    /\ observed = NoObservation
    /\ threads = <<>>
    /\ request = None
    /\ response = None

GamifyNext ==
    \/ \E activity \in Activities : ProcessUserActivity(activity)
    \/ Midnight

GamifySpec == GamifyInit /\ [][GamifyNext]_vars

----------------------------------------------------------------------------
(* Properties of the gamification engine *)

\* the stats of the user as stored
StoredStats == get_user_stats(GamifiedUser)

\* C29: longest_streak >= current_streak at all times, and current_streak >= 1
\* once an activity has been recorded.
C29_LongestStreakBoundsCurrent ==
    /\ StoredStats.longest_streak >= StoredStats.current_streak
    /\ processed > 0 => StoredStats.current_streak >= 1

\* the stats satisfy a requirement of a badge.  The stats hold no count of
\* early sessions and no count of courses per domain: the days of activity
\* and the courses completed bound them from above.
Satisfies(stats, requirement) ==
    CASE requirement.kind = "early_sessions" ->
             Cardinality(stats.activity_days) >= requirement.value
      [] requirement.kind = "domain_courses" ->
             /\ stats.courses_completed >= requirement.value
             /\ requirement.domain \in stats.domains_explored
      [] requirement.kind = "current_streak" ->
             stats.current_streak >= requirement.value
      [] requirement.kind = "longest_streak" ->
             stats.longest_streak >= requirement.value
      [] requirement.kind = "courses_completed" ->
             stats.courses_completed >= requirement.value
      [] requirement.kind = "courses_liked" ->
             stats.courses_liked >= requirement.value
      [] requirement.kind = "total_xp" -> stats.total_xp >= requirement.value
      [] requirement.kind = "domains_explored_count" ->
             Cardinality(stats.domains_explored) >= requirement.value
      [] requirement.kind = "weekend_days" ->
             Cardinality({d \in stats.activity_days : weekday(d) >= 5})
                 >= requirement.value

\* C30: process_user_activity awards a badge only if the stats satisfy every
\* requirement of the badge's definition, the kinds early_sessions and
\* domain_courses included.
C30_BadgeOnlyWhenRequirementsMet ==
    \A i \in 1..Len(updates.badges_earned) :
        LET badge == get_badge(updates.badges_earned[i])
        IN  \A j \in 1..Len(badge.requirements) :
                Satisfies(StoredStats, badge.requirements[j])

====
